---- MODULE Spec2Model ----
(***************************************************************************)
(* A model of the two stateful subsystems of ai_alert_system:              *)
(*   - AlertManager (src/alert_engine/alert_manager.py): suppression,      *)
(*     merge-by-(hostname, metric_type), escalation, resolution;           *)
(*   - LangChainMonitoringAgent.analyze (src/agents/analysis_agent.py):    *)
(*     local detection, gating, the fallback ladder, solution synthesis.   *)
(* Alert objects are shared by reference between active_alerts and         *)
(* alert_history; the model keeps the objects in alert_history and lets    *)
(* active_alerts hold, per key, the index of its object in the history.    *)
(***************************************************************************)
EXTENDS Integers, Sequences, FiniteSets, TLC

VARIABLES
    now,                \* the wall clock read by datetime.now()
    active_alerts,      \* AlertManager.active_alerts: ordered dict id -> object
    alert_history,      \* AlertManager.alert_history: list of alert objects
    suppression_rules,  \* AlertManager.suppression_rules: key -> expiry
    calls,              \* the AlertManager calls made so far: arguments, path, notifier calls
    agent,              \* LangChainMonitoringAgent: use_langchain, mock_mode, openai_client
    pc,                 \* where analyze() stands: idle, an await point, or done
    context,            \* the AnalysisContext of the cycle
    caller,             \* who called _fallback_analysis_mode: analyze or perform
    tiers,              \* the analysis tiers attempted in the cycle, with their outcomes
    model_calls,        \* the generative-model calls made in the cycle
    result,             \* what analyze() returned
    running,            \* SimpleAIAlertSystem.running
    cycles,             \* the cycles of the processing loop that ended, with their outcomes
    deliveries,         \* the calls of SimpleAlertNotifier.send_alert, channel by channel
    email_config,       \* SimpleAlertNotifier.email_config: whether a user is configured
    streaming,          \* MonitorDataCollector._running
    probe,              \* a pure function under examination: its name, argument and result
    tasks               \* the process_alert coroutines in flight: where each one stands

mgrVars == <<now, active_alerts, alert_history, suppression_rules, calls>>
agentVars == <<agent, pc, context, caller, tiers, model_calls, result>>
sysVars == <<running, cycles, deliveries, email_config, streaming, probe, tasks>>
vars == <<now, active_alerts, alert_history, suppression_rules, calls,
          agent, pc, context, caller, tiers, model_calls, result,
          running, cycles, deliveries, email_config, streaming, probe, tasks>>

-----------------------------------------------------------------------------
(* Bounds of the model *)

MaxTime == 1
MaxCalls == 3

(* Input sets *)

Ids == {"a1", "a2"}
Hosts == {"h1", "h2"}
Durations == {1, 2}

(* data_models.py *)

AlertLevel == {"info", "warning", "critical", "emergency"}
MetricType == {"cpu_usage", "memory_usage"}
NoneTime == -1

InputLevels == {"warning", "critical"}

\* Mutant of Alert: resolved_at stamped at construction.
AlertStampedAtCreation(id, hostname, metric_type, level, current_value, timestamp) ==
    [id |-> id,
     timestamp |-> timestamp,
     level |-> level,
     metric_type |-> metric_type,
     title |-> hostname \o ": " \o level,
     description |-> "detected on " \o hostname \o ": " \o level,
     current_value |-> current_value,
     threshold_value |-> IF level = "critical" THEN 95 ELSE 80,
     hostname |-> hostname,
     suggested_actions |-> <<"act on " \o level \o " at " \o hostname>>,
     context |-> [analysis |-> level],
     resolved |-> FALSE,
     resolved_at |-> timestamp]

\* Alert(...) as the alert path and the tests construct it: resolved and
\* resolved_at keep their dataclass defaults; the threshold, the suggested
\* actions and the context are those of the alert's level.
Alert(id, hostname, metric_type, level, current_value, timestamp) ==
    [id |-> id,
     timestamp |-> timestamp,
     level |-> level,
     metric_type |-> metric_type,
     title |-> hostname \o ": " \o level,
     description |-> "detected on " \o hostname \o ": " \o level,
     current_value |-> current_value,
     threshold_value |-> IF level = "critical" THEN 95 ELSE 80,
     hostname |-> hostname,
     suggested_actions |-> <<"act on " \o level \o " at " \o hostname>>,
     context |-> [analysis |-> level],
     resolved |-> FALSE,
     resolved_at |-> NoneTime]

\* The metric reading of a snapshot taken at time t.
ReadingAt(t) == 80 + t

IncomingAlerts ==
    {Alert(id, h, m, lv, ReadingAt(now), now) :
        id \in Ids, h \in Hosts, m \in MetricType, lv \in InputLevels}

NoAlert == Alert("", "", "", "", 0, NoneTime)

-----------------------------------------------------------------------------
(* AlertManager *)

\* f"{hostname}_{metric_type}"
SuppressionKey(hostname, metric_type) == hostname \o "_" \o metric_type

DictKeys(d) == {d[i].id : i \in 1..Len(d)}

\* The position of key id in the ordered dict d (0 when absent).
DictPos(d, id) ==
    IF id \in DictKeys(d)
    THEN CHOOSE i \in 1..Len(d) : d[i].id = id
    ELSE 0

\* d[id] = ref: an existing key keeps its place, a new key goes last.
DictSet(d, id, ref) ==
    IF id \in DictKeys(d)
    THEN [d EXCEPT ![DictPos(d, id)] = [id |-> id, ref |-> ref]]
    ELSE Append(d, [id |-> id, ref |-> ref])

\* Mutant of DictDel: the entry stays.
DictDelKeepsEntry(d, id) == d

\* del d[id]
DictDel(d, id) ==
    LET p == DictPos(d, id)
    IN  [i \in 1..(Len(d) - 1) |-> IF i < p THEN d[i] ELSE d[i + 1]]

\* dict without key k
RulesDel(rules, k) == [x \in (DOMAIN rules) \ {k} |-> rules[x]]

\* Mutant of IsSuppressed: the expiry comparison reversed.
IsSuppressedReversed(rules, alert, t) ==
    LET k == SuppressionKey(alert.hostname, alert.metric_type)
    IN  k \in DOMAIN rules /\ rules[k] < t

\* _is_suppressed: the verdict
IsSuppressed(rules, alert, t) ==
    LET k == SuppressionKey(alert.hostname, alert.metric_type)
    IN  k \in DOMAIN rules /\ t < rules[k]

\* Mutant of RulesAfterCheck: an expired rule is left in place.
RulesAfterCheckKeepsExpired(rules, alert, t) == rules

\* _is_suppressed: the rules it leaves (an expired rule of the key is deleted)
RulesAfterCheck(rules, alert, t) ==
    LET k == SuppressionKey(alert.hostname, alert.metric_type)
    IN  IF k \in DOMAIN rules /\ ~(t < rules[k]) THEN RulesDel(rules, k) ELSE rules

\* Mutant of Similar: the level made part of the identity.
SimilarSameLevel(existing, alert) ==
    /\ existing.hostname = alert.hostname
    /\ existing.metric_type = alert.metric_type
    /\ existing.level = alert.level
    /\ ~existing.resolved

\* the match test of _find_similar_alert
Similar(existing, alert) ==
    /\ existing.hostname = alert.hostname
    /\ existing.metric_type = alert.metric_type
    /\ ~existing.resolved

\* Mutant of FindSimilarAlert: the search runs over the history log, resolved
\* alerts included.
FindSimilarAlertInHistory(active, history, alert) ==
    LET hits == {i \in 1..Len(history) :
                    /\ history[i].hostname = alert.hostname
                    /\ history[i].metric_type = alert.metric_type}
    IN  IF hits = {} THEN 0 ELSE CHOOSE i \in hits : \A j \in hits : i <= j

\* _find_similar_alert: the first match in dict order, as a history index (0: None)
FindSimilarAlert(active, history, alert) ==
    LET hits == {i \in 1..Len(active) : Similar(history[active[i].ref], alert)}
    IN  IF hits = {} THEN 0
        ELSE active[CHOOSE i \in hits : \A j \in hits : i <= j].ref

\* Mutant of UpdatedAlert: a level change does not overwrite the description.
UpdatedAlertKeepsDescription(existing, new) ==
    LET refreshed == [existing EXCEPT !.current_value = new.current_value,
                                      !.timestamp = new.timestamp]
    IN  IF new.level # existing.level
        THEN [refreshed EXCEPT !.level = new.level]
        ELSE refreshed

\* Mutant of UpdatedAlert: a level change overwrites the title as well.
UpdatedAlertTakesTitle(existing, new) ==
    LET refreshed == [existing EXCEPT !.current_value = new.current_value,
                                      !.timestamp = new.timestamp]
    IN  IF new.level # existing.level
        THEN [refreshed EXCEPT !.level = new.level, !.description = new.description,
                               !.title = new.title]
        ELSE refreshed

\* _update_existing_alert: the object after the call
UpdatedAlert(existing, new) ==
    LET refreshed == [existing EXCEPT !.current_value = new.current_value,
                                      !.timestamp = new.timestamp]
    IN  IF new.level # existing.level
        THEN [refreshed EXCEPT !.level = new.level, !.description = new.description]
        ELSE refreshed

\* Mutant of UpdateNotifications: every merge notifies.
UpdateNotificationsAlways(existing, new) == <<UpdatedAlert(existing, new)>>

\* Mutant of UpdateNotifications: only a change to a higher level notifies.
UpdateNotificationsOnUpgradeOnly(existing, new) ==
    LET rank == [info |-> 1, warning |-> 2, critical |-> 3, emergency |-> 4]
    IN  IF rank[new.level] > rank[existing.level]
        THEN <<UpdatedAlert(existing, new)>> ELSE <<>>

\* _update_existing_alert: the notifier calls it makes
UpdateNotifications(existing, new) ==
    IF new.level # existing.level THEN <<UpdatedAlert(existing, new)>> ELSE <<>>

\* One entry of the call log: the call, its argument, the branch it took and
\* the alerts it handed to notifier.send_alert, in order (and, for
\* suppress_alerts, its duration_minutes).
CallRecord(op, alert, arg, path, sent) ==
    [op |-> op, alert |-> alert, arg |-> arg, at |-> now, path |-> path, sent |-> sent,
     minutes |-> 0]

\* Mutant of ProcessAlert: a level change is logged as a new history entry.
ProcessAlertLogsEscalations(alert) ==
    LET rules == RulesAfterCheck(suppression_rules, alert, now)
        ref == FindSimilarAlert(active_alerts, alert_history, alert)
    IN  /\ Len(calls) < MaxCalls
        /\ UNCHANGED agentVars
        /\ UNCHANGED sysVars
        /\ IF IsSuppressed(suppression_rules, alert, now)
           THEN /\ calls' = Append(calls, CallRecord("process", alert, alert.id, "suppressed", <<>>))
                /\ UNCHANGED <<now, active_alerts, alert_history, suppression_rules>>
           ELSE IF ref # 0
           THEN /\ alert_history' =
                       LET merged == [alert_history EXCEPT
                                         ![ref] = UpdatedAlert(alert_history[ref], alert)]
                       IN  IF alert.level # alert_history[ref].level
                           THEN Append(merged, alert) ELSE merged
                /\ suppression_rules' = rules
                /\ calls' = Append(calls, CallRecord("process", alert, alert.id, "merged",
                                       UpdateNotifications(alert_history[ref], alert)))
                /\ UNCHANGED <<now, active_alerts>>
           ELSE /\ active_alerts' = DictSet(active_alerts, alert.id, Len(alert_history) + 1)
                /\ alert_history' = Append(alert_history, alert)
                /\ suppression_rules' = rules
                /\ calls' = Append(calls, CallRecord("process", alert, alert.id, "created", <<alert>>))
                /\ UNCHANGED now

\* process_alert
ProcessAlert(alert) ==
    LET rules == RulesAfterCheck(suppression_rules, alert, now)
        ref == FindSimilarAlert(active_alerts, alert_history, alert)
    IN  /\ Len(calls) < MaxCalls
        /\ UNCHANGED agentVars
        /\ UNCHANGED sysVars
        /\ IF IsSuppressed(suppression_rules, alert, now)
           THEN /\ calls' = Append(calls, CallRecord("process", alert, alert.id, "suppressed", <<>>))
                /\ UNCHANGED <<now, active_alerts, alert_history, suppression_rules>>
           ELSE IF ref # 0
           THEN /\ alert_history' =
                       [alert_history EXCEPT ![ref] = UpdatedAlert(alert_history[ref], alert)]
                /\ suppression_rules' = rules
                /\ calls' = Append(calls, CallRecord("process", alert, alert.id, "merged",
                                       UpdateNotifications(alert_history[ref], alert)))
                /\ UNCHANGED <<now, active_alerts>>
           ELSE /\ active_alerts' = DictSet(active_alerts, alert.id, Len(alert_history) + 1)
                /\ alert_history' = Append(alert_history, alert)
                /\ suppression_rules' = rules
                /\ calls' = Append(calls, CallRecord("process", alert, alert.id, "created", <<alert>>))
                /\ UNCHANGED now

\* Mutant of ResolveAlert: an id that is no longer active is looked up in the
\* history, and the alerts found are stamped again.
ResolveAlertRestamps(alert_id) ==
    /\ Len(calls) < MaxCalls
    /\ UNCHANGED agentVars
    /\ UNCHANGED sysVars
    /\ IF alert_id \in DictKeys(active_alerts)
       THEN LET ref == active_alerts[DictPos(active_alerts, alert_id)].ref
            IN  /\ alert_history' = [alert_history EXCEPT ![ref].resolved = TRUE,
                                                          ![ref].resolved_at = now]
                /\ active_alerts' = DictDel(active_alerts, alert_id)
                /\ calls' = Append(calls, CallRecord("resolve", NoAlert, alert_id, "resolved", <<>>))
                /\ UNCHANGED <<now, suppression_rules>>
       ELSE /\ alert_history' =
                    [i \in 1..Len(alert_history) |->
                        IF alert_history[i].id = alert_id
                        THEN [alert_history[i] EXCEPT !.resolved = TRUE, !.resolved_at = now]
                        ELSE alert_history[i]]
            /\ calls' = Append(calls, CallRecord("resolve", NoAlert, alert_id, "absent", <<>>))
            /\ UNCHANGED <<now, active_alerts, suppression_rules>>

\* resolve_alert
ResolveAlert(alert_id) ==
    /\ Len(calls) < MaxCalls
    /\ UNCHANGED agentVars
    /\ UNCHANGED sysVars
    /\ IF alert_id \in DictKeys(active_alerts)
       THEN LET ref == active_alerts[DictPos(active_alerts, alert_id)].ref
            IN  /\ alert_history' = [alert_history EXCEPT ![ref].resolved = TRUE,
                                                          ![ref].resolved_at = now]
                /\ active_alerts' = DictDel(active_alerts, alert_id)
                /\ calls' = Append(calls, CallRecord("resolve", NoAlert, alert_id, "resolved", <<>>))
                /\ UNCHANGED <<now, suppression_rules>>
       ELSE /\ calls' = Append(calls, CallRecord("resolve", NoAlert, alert_id, "absent", <<>>))
            /\ UNCHANGED <<now, active_alerts, alert_history, suppression_rules>>

\* Mutant of SuppressAlerts: a rule already in force is never shortened.
SuppressAlertsKeepsLaterExpiry(hostname, metric_type, duration_minutes) ==
    LET k == SuppressionKey(hostname, metric_type)
        expiry == IF k \in DOMAIN suppression_rules
                     /\ suppression_rules[k] > now + duration_minutes
                  THEN suppression_rules[k] ELSE now + duration_minutes
    IN  /\ Len(calls) < MaxCalls
        /\ suppression_rules' =
                [x \in (DOMAIN suppression_rules) \cup {k} |->
                    IF x = k THEN expiry ELSE suppression_rules[x]]
        /\ calls' = Append(calls,
                        [CallRecord("suppress", NoAlert, k, "installed", <<>>)
                            EXCEPT !.minutes = duration_minutes])
        /\ UNCHANGED <<now, active_alerts, alert_history>>
        /\ UNCHANGED agentVars
        /\ UNCHANGED sysVars

\* Mutant of SuppressAlerts: the rule covers every metric of the host.
SuppressAlertsByHost(hostname, metric_type, duration_minutes) ==
    LET k == SuppressionKey(hostname, metric_type)
        ks == {SuppressionKey(hostname, m) : m \in MetricType}
    IN  /\ Len(calls) < MaxCalls
        /\ suppression_rules' =
                [x \in (DOMAIN suppression_rules) \cup ks |->
                    IF x \in ks THEN now + duration_minutes ELSE suppression_rules[x]]
        /\ calls' = Append(calls,
                        [CallRecord("suppress", NoAlert, k, "installed", <<>>)
                            EXCEPT !.minutes = duration_minutes])
        /\ UNCHANGED <<now, active_alerts, alert_history>>
        /\ UNCHANGED agentVars
        /\ UNCHANGED sysVars

\* suppress_alerts
SuppressAlerts(hostname, metric_type, duration_minutes) ==
    LET k == SuppressionKey(hostname, metric_type)
    IN  /\ Len(calls) < MaxCalls
        /\ suppression_rules' =
                [x \in (DOMAIN suppression_rules) \cup {k} |->
                    IF x = k THEN now + duration_minutes ELSE suppression_rules[x]]
        /\ calls' = Append(calls,
                        [CallRecord("suppress", NoAlert, k, "installed", <<>>)
                            EXCEPT !.minutes = duration_minutes])
        /\ UNCHANGED <<now, active_alerts, alert_history>>
        /\ UNCHANGED agentVars
        /\ UNCHANGED sysVars

\* get_alert_statistics
GetAlertStatistics ==
    [total_alerts |-> Len(alert_history),
     active_alerts |-> Len(active_alerts),
     resolved_alerts |-> Len(alert_history) - Len(active_alerts),
     level_distribution |->
         [level \in AlertLevel |->
             Cardinality({i \in 1..Len(alert_history) : alert_history[i].level = level})],
     hostname_distribution |->
         [h \in {alert_history[i].hostname : i \in 1..Len(alert_history)} |->
             Cardinality({i \in 1..Len(alert_history) : alert_history[i].hostname = h})]]

\* Time passes between calls.
Tick ==
    /\ now < MaxTime
    /\ now' = now + 1
    /\ UNCHANGED <<active_alerts, alert_history, suppression_rules, calls>>
    /\ UNCHANGED agentVars
    /\ UNCHANGED sysVars

\* AlertManager.__init__
ManagerInit ==
    /\ now = 0
    /\ active_alerts = <<>>
    /\ alert_history = <<>>
    /\ suppression_rules = [x \in {} |-> 0]
    /\ calls = <<>>

\* The coroutines that may run process_alert at the same time.
Tasks == {"t1", "t2"}

\* A coroutine that is not inside process_alert.
NoTask == [pc |-> "idle", alert |-> NoAlert, path |-> "", ref |-> 0]

\* SimpleAIAlertSystem.start (running = True), before any cycle and any notification
\* No function is under examination.
NoProbe == [op |-> "none", input |-> <<>>, applied |-> FALSE, output |-> <<>>]

SystemInit ==
    /\ running = TRUE
    /\ cycles = <<>>
    /\ deliveries = <<>>
    /\ email_config = [user |-> FALSE]
    /\ streaming = FALSE
    /\ tasks = [t \in Tasks |-> NoTask]
    /\ probe = NoProbe

-----------------------------------------------------------------------------
(* analysis_agent.py: issue labels *)

\* An issue label is the sequence of the words of its text; the Chinese words are
\* written in pinyin: yanzhong (severe), pingjing (bottleneck), buzu
\* (insufficient), piangao (elevated), guogao (too high), shiyonglv (usage),
\* neicun (memory), fuzai (load), xitong (system).
CpuSevere == <<"CPU", "shiyonglv", "yanzhong", "guogao">>
CpuElevated == <<"CPU", "shiyonglv", "piangao">>
MemorySevere == <<"neicun", "yanzhong", "buzu">>
MemoryElevated == <<"neicun", "shiyonglv", "piangao">>
LoadSevere == <<"xitong", "fuzai", "yanzhong", "guogao">>
LoadElevated == <<"xitong", "fuzai", "piangao">>
IoBottleneck ==
    <<"fuzai", "gao", "dan", "CPU", "di", ",", "keneng", "cunzai", "I/O", "pingjing">>

\* keyword in text
Contains(text, keyword) ==
    \E i \in 1..(Len(text) - Len(keyword) + 1) :
        SubSeq(text, i, i + Len(keyword) - 1) = keyword

\* any(keyword in issue for issue in issues)
AnyContains(issues, keyword) == \E i \in 1..Len(issues) : Contains(issues[i], keyword)

\* separator.join(issues)
RECURSIVE Join(_, _)
Join(issues, separator) ==
    IF issues = <<>> THEN <<>>
    ELSE IF Len(issues) = 1 THEN issues[1]
    ELSE issues[1] \o <<separator>> \o Join(Tail(issues), separator)

\* A snapshot with the memory counters in units, the usage ratio kept exact.
MonitoringData(hostname, cpu_usage, memory_used, memory_total, cpu_load_1min) ==
    [hostname |-> hostname, cpu_usage |-> cpu_usage, memory_used |-> memory_used,
     memory_total |-> memory_total, cpu_load_1min |-> cpu_load_1min]

\* (memory_used / memory_total) * 100 > percent
MemoryPercentOver(data, percent) ==
    data.memory_used * 100 > percent * data.memory_total

\* _detect_issues_locally raises ZeroDivisionError on memory_total = 0
DetectionRaises(data) == data.memory_total = 0

\* Mutant of DetectIssuesLocally: the elevated CPU threshold is inclusive.
DetectIssuesLocallyInclusive(data) ==
    (IF data.cpu_usage > 95 THEN <<CpuSevere>>
     ELSE IF data.cpu_usage >= 80 THEN <<CpuElevated>> ELSE <<>>)
    \o
    (IF MemoryPercentOver(data, 95) THEN <<MemorySevere>>
     ELSE IF MemoryPercentOver(data, 85) THEN <<MemoryElevated>> ELSE <<>>)
    \o
    (IF data.cpu_load_1min > 10 THEN <<LoadSevere>>
     ELSE IF data.cpu_load_1min > 8 THEN <<LoadElevated>> ELSE <<>>)
    \o
    (IF data.cpu_load_1min > 5 /\ data.cpu_usage < 50 THEN <<IoBottleneck>> ELSE <<>>)

\* _detect_issues_locally
DetectIssuesLocally(data) ==
    (IF data.cpu_usage > 95 THEN <<CpuSevere>>
     ELSE IF data.cpu_usage > 80 THEN <<CpuElevated>> ELSE <<>>)
    \o
    (IF MemoryPercentOver(data, 95) THEN <<MemorySevere>>
     ELSE IF MemoryPercentOver(data, 85) THEN <<MemoryElevated>> ELSE <<>>)
    \o
    (IF data.cpu_load_1min > 10 THEN <<LoadSevere>>
     ELSE IF data.cpu_load_1min > 8 THEN <<LoadElevated>> ELSE <<>>)
    \o
    (IF data.cpu_load_1min > 5 /\ data.cpu_usage < 50 THEN <<IoBottleneck>> ELSE <<>>)

\* Mutant of ShouldUseLlm: the bottleneck keyword is missing from the list.
ShouldUseLlmWithoutBottleneck(issues) ==
    \E keyword \in {<<"yanzhong">>, <<"buzu">>} :
        AnyContains(issues, keyword)

\* _should_use_llm
ShouldUseLlm(issues) ==
    \E keyword \in {<<"yanzhong">>, <<"pingjing">>, <<"buzu">>} :
        AnyContains(issues, keyword)

\* IssueAnalysis; severity is di (low), zhong (medium) or gao (high)
IssueAnalysis(root_cause, severity, impact) ==
    [root_cause |-> root_cause, severity |-> severity, impact |-> impact]

NoAnalysis == IssueAnalysis(<<>>, "", "")

\* Mutant of GetRuleBasedAnalysis: the bottleneck keyword is tested first.
GetRuleBasedAnalysisBottleneckFirst(issues) ==
    IssueAnalysis(
        <<"jiyu guize jiance: ">> \o Join(issues, "; "),
        IF AnyContains(issues, <<"pingjing">>) THEN "zhong"
        ELSE IF AnyContains(issues, <<"yanzhong">>) THEN "gao" ELSE "di",
        IF AnyContains(issues, <<"pingjing">>) THEN "yingxiang xitong xiangying xingneng"
        ELSE IF AnyContains(issues, <<"yanzhong">>) THEN "yanzhong yingxiang xitong wendingxing"
        ELSE "qingwei yingxiang xitong yunxing")

\* _get_rule_based_analysis
GetRuleBasedAnalysis(issues) ==
    IssueAnalysis(
        <<"jiyu guize jiance: ">> \o Join(issues, "; "),
        IF AnyContains(issues, <<"yanzhong">>) THEN "gao"
        ELSE IF AnyContains(issues, <<"pingjing">>) THEN "zhong" ELSE "di",
        IF AnyContains(issues, <<"yanzhong">>) THEN "yanzhong yingxiang xitong wendingxing"
        ELSE IF AnyContains(issues, <<"pingjing">>) THEN "yingxiang xitong xiangying xingneng"
        ELSE "qingwei yingxiang xitong yunxing")

\* _mock_langchain_analysis
MockLangchainAnalysis(issues) ==
    LET joined == Join(issues, " ")
    IN  IF AnyContains(issues, <<"yanzhong">>)
        THEN IF Contains(joined, <<"neicun">>)
             THEN IssueAnalysis(<<"mock: neicun ziyuan yanzhong buzu">>, "gao", "mock: memory")
             ELSE IF Contains(joined, <<"CPU">>)
             THEN IssueAnalysis(<<"mock: CPU ziyuan yanzhong guozai">>, "gao", "mock: cpu")
             ELSE IssueAnalysis(<<"mock: xitong fuzai yanzhong chaobiao">>, "gao", "mock: load")
        ELSE IF Contains(joined, <<"pingjing">>)
        THEN IssueAnalysis(<<"mock: I/O pingjing">>, "zhong", "mock: io")
        ELSE IssueAnalysis(<<"mock: xingneng zhibiao piangao">>, "di", "mock: minor")

\* What analysis_chain.ainvoke returns when it succeeds: a parsed IssueAnalysis.
ChainAnalyses ==
    {IssueAnalysis(<<"chain: root cause">>, severity, "chain: impact") :
        severity \in {"di", "zhong", "gao"}}

\* The IssueAnalysis built from a direct completion (lines 348-353).
DirectAnalysis == IssueAnalysis(<<"direct: analysis text">>, "zhong", "keneng yingxiang xitong xingneng")

-----------------------------------------------------------------------------
(* analysis_agent.py: solution synthesis *)

SolutionRecommendation(immediate_actions, monitoring_steps, preventive_measures) ==
    [immediate_actions |-> immediate_actions,
     monitoring_steps |-> monitoring_steps,
     preventive_measures |-> preventive_measures]

NoSolutions == SolutionRecommendation(<<"None">>, <<"None">>, <<"None">>)

\* seq[:n]
Take(seq, n) == SubSeq(seq, 1, IF Len(seq) < n THEN Len(seq) ELSE n)

\* list(dict.fromkeys(seq)): the first occurrences, in order
Dedupe(seq) ==
    LET FirstOccurrences[s \in {seq}] ==
            LET keep == {i \in 1..Len(s) : \A j \in 1..(i - 1) : s[j] # s[i]}
            IN  [k \in 1..Cardinality(keep) |->
                    s[CHOOSE i \in keep : Cardinality({j \in keep : j < i}) = k - 1]]
    IN  FirstOccurrences[seq]

\* The template rows of _get_fallback_solutions: the first keyword an issue contains.
TemplateOf(issue) ==
    IF Contains(issue, <<"CPU">>) THEN "CPU"
    ELSE IF Contains(issue, <<"neicun">>) THEN "neicun"
    ELSE IF Contains(issue, <<"fuzai">>) THEN "fuzai"
    ELSE IF Contains(issue, <<"I/O", "pingjing">>) THEN "I/O pingjing"
    ELSE "none"

HasTemplate(issue) == TemplateOf(issue) # "none"

\* One row of the list (immediate, monitoring or preventive) per issue with a template.
TemplateRows(issues, list) ==
    LET matched == SelectSeq(issues, HasTemplate)
    IN  [k \in 1..Len(matched) |-> list \o ": " \o TemplateOf(matched[k])]

\* _get_fallback_solutions
GetFallbackSolutions(issues, knowledge_results) ==
    SolutionRecommendation(
        Take(Dedupe(TemplateRows(issues, "immediate") \o Take(knowledge_results, 2)), 5),
        Take(Dedupe(TemplateRows(issues, "monitoring")), 3),
        Take(Dedupe(TemplateRows(issues, "preventive")), 3))

\* _mock_langchain_solutions
MockLangchainSolutions(issues) ==
    LET joined == Join(issues, " ")
        mem == Contains(joined, <<"neicun">>)
        cpu == Contains(joined, <<"CPU">>)
        io == Contains(joined, <<"I/O", "pingjing">>)
        immediate ==
            (IF mem THEN <<"mock immediate: free -h", "mock immediate: restart top process",
                           "mock immediate: drop caches">> ELSE <<>>)
            \o (IF cpu THEN <<"mock immediate: top", "mock immediate: reschedule">> ELSE <<>>)
            \o (IF io THEN <<"mock immediate: iostat", "mock immediate: iotop",
                             "mock immediate: netstat">> ELSE <<>>)
        monitoring ==
            (IF mem THEN <<"mock monitoring: memory 85%", "mock monitoring: leak trend">> ELSE <<>>)
            \o (IF cpu THEN <<"mock monitoring: cpu trend", "mock monitoring: cpu load alert">> ELSE <<>>)
            \o (IF io THEN <<"mock monitoring: io wait", "mock monitoring: bandwidth">> ELSE <<>>)
        preventive ==
            (IF mem THEN <<"mock preventive: more memory", "mock preventive: memory usage">> ELSE <<>>)
            \o (IF cpu THEN <<"mock preventive: cpu upgrade", "mock preventive: algorithms">> ELSE <<>>)
            \o (IF io THEN <<"mock preventive: ssd", "mock preventive: queries">> ELSE <<>>)
    IN  SolutionRecommendation(
            Take(IF immediate = <<>> THEN <<"mock immediate: health check">> ELSE immediate, 5),
            Take(monitoring, 3),
            Take(preventive, 3))

\* What solution_chain.ainvoke returns when it succeeds: a parsed
\* SolutionRecommendation, whose lists are whatever the model wrote.
ChainSolutions ==
    {SolutionRecommendation(<<"chain immediate: a">>, <<"chain monitoring: a">>, <<"chain preventive: a">>),
     SolutionRecommendation(<<"chain immediate: a", "chain immediate: a">>, <<>>, <<>>)}

\* What the searches of knowledge_base.search_solutions add up to (r['content']).
KnowledgeResults == {<<>>, <<"kb: a">>, <<"kb: a", "kb: b", "kb: a">>}

-----------------------------------------------------------------------------
(* analysis_agent.py: the result *)

\* AnalysisContext(data=data); the confidence is in tenths
AnalysisContext(data) ==
    [data |-> data, issues |-> <<>>, llm_analysis |-> NoAnalysis, solutions |-> NoSolutions,
     confidence |-> 5, fallback_used |-> FALSE, knowledge_results |-> <<>>]

AnalysisResult(hostname, anomalies_detected, performance_issues, recommendations, confidence_score, analysis_details) ==
    [hostname |-> hostname,
     anomalies_detected |-> anomalies_detected,
     performance_issues |-> performance_issues,
     recommendations |-> recommendations,
     confidence_score |-> confidence_score,
     analysis_details |-> analysis_details]

\* The analysis_details dict: the keys it holds, and their values.
AnalysisDetails(keys, langchain_enabled, fallback_used, analysis) ==
    [keys |-> keys, langchain_enabled |-> langchain_enabled,
     fallback_used |-> fallback_used, analysis |-> analysis]

NoResult == AnalysisResult("", <<>>, <<>>, <<>>, 0, AnalysisDetails({}, FALSE, FALSE, NoAnalysis))

\* _create_analysis_result
CreateAnalysisResult(ctx) ==
    AnalysisResult(
        ctx.data.hostname,
        ctx.issues,
        ctx.issues,
        IF ctx.solutions = NoSolutions THEN <<>>
        ELSE ctx.solutions.immediate_actions \o ctx.solutions.monitoring_steps
             \o ctx.solutions.preventive_measures,
        IF ctx.confidence < 10 THEN ctx.confidence ELSE 10,
        AnalysisDetails(
            {"detection_method", "langchain_enabled", "fallback_used"}
                \cup (IF ctx.llm_analysis # NoAnalysis
                      THEN {"root_cause", "severity", "impact"} ELSE {}),
            agent.use_langchain,
            ctx.fallback_used,
            ctx.llm_analysis))

\* _fallback_analysis
FallbackAnalysis(data) ==
    AnalysisResult(
        data.hostname,
        <<<<"xitong", "jiance", "yichang">>>>,
        <<<<"fenxi", "liucheng", "shibai">>>>,
        <<"jianyi rengong jiancha xitong zhuangtai he rizhi">>,
        3,
        AnalysisDetails({"fallback", "error"}, FALSE, FALSE, NoAnalysis))

-----------------------------------------------------------------------------
(* analysis_agent.py: analyze *)

\* LANGCHAIN_AVAILABLE: the module defines its pydantic models at import, so it
\* loads only when the imports of lines 13-19 succeeded.
LANGCHAIN_AVAILABLE == TRUE

\* __init__, from whether OPENAI_API_KEY is set, mock_mode, and OPENAI_AVAILABLE
AgentConfig(api_key, mock_mode, openai_available) ==
    [use_langchain |-> LANGCHAIN_AVAILABLE /\ (api_key \/ mock_mode),
     mock_mode |-> mock_mode,
     openai_client |-> openai_available /\ api_key]

AgentInit(api_key, mock_mode, openai_available) ==
    /\ agent = AgentConfig(api_key, mock_mode, openai_available)
    /\ pc = "idle"
    /\ context = AnalysisContext(MonitoringData("", 0, 0, 1, 0))
    /\ caller = ""
    /\ tiers = <<>>
    /\ model_calls = <<>>
    /\ result = NoResult

Attempt(tier, outcome) == [tier |-> tier, outcome |-> outcome]

\* The tiers log with the outcome of the pending attempt filled in.
Settle(ts, outcome) == [ts EXCEPT ![Len(ts)].outcome = outcome]

\* Mutant of ConfidenceAfterAnalysis: the else branch sets 0.5.
ConfidenceAfterAnalysisHalf(branch) == IF branch = "perform" THEN 9 ELSE 5

\* analyze lines 174 and 178: the confidence set after the analysis step, by the
\* branch taken (perform: _perform_langchain_analysis; analyze: the else branch)
ConfidenceAfterAnalysis(branch) == IF branch = "perform" THEN 9 ELSE 7

\* As if line 273 stood after the try block: a chain that succeeds is marked too.
ChainSucceededMarksFallback(ctx, analysis) ==
    [ctx EXCEPT !.llm_analysis = analysis, !.fallback_used = TRUE]

\* _perform_langchain_analysis lines 258 and 267: the chain's result is kept
ChainSucceeded(ctx, analysis) == [ctx EXCEPT !.llm_analysis = analysis]

\* As if the except of line 355 only logged: no analysis is kept.
AnalysisOnDirectFailureKeepsNone(issues) == NoAnalysis

\* _fallback_analysis_mode line 357: the analysis kept when the completion raises
AnalysisOnDirectFailure(issues) == GetRuleBasedAnalysis(issues)

\* _fallback_analysis_mode returns to its caller: line 362, and line 273 in
\* _perform_langchain_analysis; then analyze sets the confidence and goes on to
\* the solutions.
LeaveFallbackAnalysisMode(ctx, analysis, branch, ts) ==
    /\ context' = [ctx EXCEPT !.llm_analysis = analysis,
                              !.fallback_used = TRUE,
                              !.confidence = ConfidenceAfterAnalysis(branch)]
    /\ pc' = "solutions"
    /\ caller' = branch
    /\ tiers' = ts
    /\ UNCHANGED <<model_calls, result>>

\* As if line 327 did not test the client: the completion is always awaited.
EnterFallbackAnalysisModeWithoutClientTest(ctx, branch, ts) ==
    /\ context' = ctx
    /\ pc' = "await_direct"
    /\ caller' = branch
    /\ tiers' = Append(ts, Attempt("direct", "pending"))
    /\ model_calls' = Append(model_calls, "direct_completion")
    /\ UNCHANGED result

\* _fallback_analysis_mode is entered: with a client the completion is awaited
\* (no wait_for around it), without one the rules decide.
EnterFallbackAnalysisMode(ctx, branch, ts) ==
    IF agent.openai_client
    THEN /\ context' = ctx
         /\ pc' = "await_direct"
         /\ caller' = branch
         /\ tiers' = Append(ts, Attempt("direct", "pending"))
         /\ model_calls' = Append(model_calls, "direct_completion")
         /\ UNCHANGED result
    ELSE LeaveFallbackAnalysisMode(ctx, GetRuleBasedAnalysis(ctx.issues), branch,
                                   Append(ts, Attempt("rule", "ok")))

\* analyze returns what _create_analysis_result builds.
Return(ctx) ==
    /\ context' = ctx
    /\ result' = CreateAnalysisResult(context')
    /\ pc' = "done"


\* Mutant of StartAnalyze: an empty issue list goes through the tiers as well.
StartAnalyzeWithoutEarlyReturn(data) ==
    LET ctx0 == AnalysisContext(data)
        ctx1 == [ctx0 EXCEPT !.issues = DetectIssuesLocally(data), !.confidence = 6]
    IN  /\ pc = "idle"
        /\ UNCHANGED agent
        /\ UNCHANGED mgrVars
        /\ UNCHANGED sysVars
        /\ IF DetectionRaises(data)
           THEN /\ context' = ctx0
                /\ result' = FallbackAnalysis(data)
                /\ pc' = "done"
                /\ UNCHANGED <<caller, tiers, model_calls>>
           ELSE IF agent.use_langchain /\ ShouldUseLlm(ctx1.issues)
           THEN IF agent.mock_mode
                THEN /\ context' = [ChainSucceeded(ctx1, MockLangchainAnalysis(ctx1.issues))
                                        EXCEPT !.confidence = ConfidenceAfterAnalysis("perform")]
                     /\ pc' = "solutions"
                     /\ caller' = "perform"
                     /\ tiers' = <<Attempt("chain", "ok")>>
                     /\ UNCHANGED <<model_calls, result>>
                ELSE /\ context' = ctx1
                     /\ pc' = "await_chain"
                     /\ caller' = "perform"
                     /\ tiers' = <<Attempt("chain", "pending")>>
                     /\ model_calls' = <<"analysis_chain">>
                     /\ UNCHANGED result
           ELSE EnterFallbackAnalysisMode(ctx1, "analyze", <<>>)

\* analyze up to its first await (or its return): local detection, the gate, and
\* the first tier.
StartAnalyze(data) ==
    LET ctx0 == AnalysisContext(data)
        ctx1 == [ctx0 EXCEPT !.issues = DetectIssuesLocally(data), !.confidence = 6]
    IN  /\ pc = "idle"
        /\ UNCHANGED agent
        /\ UNCHANGED mgrVars
        /\ UNCHANGED sysVars
        /\ IF DetectionRaises(data)
           THEN /\ context' = ctx0
                /\ result' = FallbackAnalysis(data)
                /\ pc' = "done"
                /\ UNCHANGED <<caller, tiers, model_calls>>
           ELSE IF ctx1.issues = <<>>
           THEN /\ Return(ctx1)
                /\ UNCHANGED <<caller, tiers, model_calls>>
           ELSE IF agent.use_langchain /\ ShouldUseLlm(ctx1.issues)
           THEN IF agent.mock_mode
                THEN /\ context' = [ChainSucceeded(ctx1, MockLangchainAnalysis(ctx1.issues))
                                        EXCEPT !.confidence = ConfidenceAfterAnalysis("perform")]
                     /\ pc' = "solutions"
                     /\ caller' = "perform"
                     /\ tiers' = <<Attempt("chain", "ok")>>
                     /\ UNCHANGED <<model_calls, result>>
                ELSE /\ context' = ctx1
                     /\ pc' = "await_chain"
                     /\ caller' = "perform"
                     /\ tiers' = <<Attempt("chain", "pending")>>
                     /\ model_calls' = <<"analysis_chain">>
                     /\ UNCHANGED result
           ELSE EnterFallbackAnalysisMode(ctx1, "analyze", <<>>)

\* analysis_chain.ainvoke returns a parsed IssueAnalysis within the 30 s.
ChainReturns(analysis) ==
    /\ pc = "await_chain"
    /\ context' = [ChainSucceeded(context, analysis)
                       EXCEPT !.confidence = ConfidenceAfterAnalysis("perform")]
    /\ pc' = "solutions"
    /\ tiers' = Settle(tiers, "ok")
    /\ UNCHANGED <<agent, caller, model_calls, result>>
    /\ UNCHANGED mgrVars
    /\ UNCHANGED sysVars

\* analysis_chain.ainvoke raises (the call or the parse fails): line 270.
ChainRaises ==
    /\ pc = "await_chain"
    /\ EnterFallbackAnalysisMode(context, "perform", Settle(tiers, "error"))
    /\ UNCHANGED agent
    /\ UNCHANGED mgrVars
    /\ UNCHANGED sysVars

\* asyncio.wait_for(..., timeout=30.0) gives up: asyncio.TimeoutError, line 270.
ChainTimeout ==
    /\ pc = "await_chain"
    /\ EnterFallbackAnalysisMode(context, "perform", Settle(tiers, "timeout"))
    /\ UNCHANGED agent
    /\ UNCHANGED mgrVars
    /\ UNCHANGED sysVars

\* openai_client.chat.completions.create returns a completion.
DirectReturns ==
    /\ pc = "await_direct"
    /\ LeaveFallbackAnalysisMode(context, DirectAnalysis, caller, Settle(tiers, "ok"))
    /\ UNCHANGED agent
    /\ UNCHANGED mgrVars
    /\ UNCHANGED sysVars

\* openai_client.chat.completions.create raises: line 355.
DirectRaises ==
    /\ pc = "await_direct"
    /\ LeaveFallbackAnalysisMode(context, AnalysisOnDirectFailure(context.issues), caller,
                                 Append(Settle(tiers, "error"), Attempt("rule", "ok")))
    /\ UNCHANGED agent
    /\ UNCHANGED mgrVars
    /\ UNCHANGED sysVars

\* _generate_langchain_solutions up to its await (or its return): the knowledge
\* searches, which return snippets or raise, then the choice of the synthesis.
GenerateSolutions(knowledge_results, search_raises) ==
    /\ pc = "solutions"
    /\ UNCHANGED <<agent, caller, tiers>>
    /\ UNCHANGED mgrVars
    /\ UNCHANGED sysVars
    /\ IF search_raises
       THEN /\ Return([context EXCEPT !.solutions = GetFallbackSolutions(context.issues, <<>>)])
            /\ UNCHANGED model_calls
       ELSE IF agent.use_langchain /\ context.llm_analysis # NoAnalysis
       THEN IF agent.mock_mode
            THEN /\ Return([context EXCEPT !.solutions = MockLangchainSolutions(context.issues),
                                           !.knowledge_results = knowledge_results])
                 /\ UNCHANGED model_calls
            ELSE /\ context' = [context EXCEPT !.knowledge_results = knowledge_results]
                 /\ pc' = "await_solution"
                 /\ model_calls' = Append(model_calls, "solution_chain")
                 /\ UNCHANGED result
       ELSE /\ Return([context EXCEPT
                          !.solutions = GetFallbackSolutions(context.issues, knowledge_results),
                          !.knowledge_results = knowledge_results])
            /\ UNCHANGED model_calls

\* solution_chain.ainvoke returns a parsed SolutionRecommendation within the 30 s.
SolutionReturns(solutions) ==
    /\ pc = "await_solution"
    /\ Return([context EXCEPT !.solutions = solutions])
    /\ UNCHANGED <<agent, caller, tiers, model_calls>>
    /\ UNCHANGED mgrVars
    /\ UNCHANGED sysVars

\* solution_chain.ainvoke raises (the call or the parse fails): line 312.
SolutionRaises ==
    /\ pc = "await_solution"
    /\ Return([context EXCEPT
                  !.solutions = GetFallbackSolutions(context.issues, context.knowledge_results)])
    /\ UNCHANGED <<agent, caller, tiers, model_calls>>
    /\ UNCHANGED mgrVars
    /\ UNCHANGED sysVars

\* Mutant of SolutionTimeout: the timeout is caught by no handler of
\* _generate_langchain_solutions and reaches the except clause of analyze.
SolutionTimeoutEscapes ==
    /\ pc = "await_solution"
    /\ context' = context
    /\ result' = FallbackAnalysis(context.data)
    /\ pc' = "done"
    /\ UNCHANGED <<agent, caller, tiers, model_calls>>
    /\ UNCHANGED mgrVars
    /\ UNCHANGED sysVars

\* asyncio.wait_for(..., timeout=30.0) gives up: asyncio.TimeoutError, line 312.
SolutionTimeout ==
    /\ pc = "await_solution"
    /\ Return([context EXCEPT
                  !.solutions = GetFallbackSolutions(context.issues, context.knowledge_results)])
    /\ UNCHANGED <<agent, caller, tiers, model_calls>>
    /\ UNCHANGED mgrVars
    /\ UNCHANGED sysVars

\* The caller has the result; the next call of analyze starts a new cycle.
NextCycle ==
    /\ pc = "done"
    /\ pc' = "idle"
    /\ context' = AnalysisContext(MonitoringData("", 0, 0, 1, 0))
    /\ caller' = ""
    /\ tiers' = <<>>
    /\ model_calls' = <<>>
    /\ result' = NoResult
    /\ UNCHANGED agent
    /\ UNCHANGED mgrVars
    /\ UNCHANGED sysVars

\* The snapshots analyzed: readings on both sides of every threshold, and one
\* malformed snapshot (memory_total = 0).
Snapshots ==
    {MonitoringData("h1", cpu, mem[1], mem[2], load) :
        cpu \in {45, 85, 97},
        mem \in {<<60, 100>>, <<90, 100>>, <<98, 100>>, <<0, 0>>},
        load \in {2, 6, 9, 11}}

AgentSpecInit ==
    /\ ManagerInit
    /\ SystemInit
    /\ \E api_key \in BOOLEAN, mock_mode \in BOOLEAN, openai_available \in BOOLEAN :
           AgentInit(api_key, mock_mode, openai_available)

AgentNext ==
    \/ \E data \in Snapshots : StartAnalyze(data)
    \/ \E analysis \in ChainAnalyses : ChainReturns(analysis)
    \/ ChainRaises
    \/ ChainTimeout
    \/ DirectReturns
    \/ DirectRaises
    \/ \E kr \in KnowledgeResults, raises \in BOOLEAN : GenerateSolutions(kr, raises)
    \/ \E solutions \in ChainSolutions : SolutionReturns(solutions)
    \/ SolutionRaises
    \/ SolutionTimeout
    \/ NextCycle

\* analyze() alone, under every configuration of the agent.
AgentSpec == AgentSpecInit /\ [][AgentNext]_vars

\* analyze() on the event loop: a coroutine that can run is run, and the timer of
\* an asyncio.wait_for fires. Nothing makes the model answer or fail.
AgentLiveSpec ==
    /\ AgentSpec
    /\ WF_vars(\E kr \in KnowledgeResults, raises \in BOOLEAN : GenerateSolutions(kr, raises))
    /\ WF_vars(ChainTimeout)
    /\ WF_vars(SolutionTimeout)

-----------------------------------------------------------------------------
(* main.py: the processing loop *)

MaxCycles == 2

\* The text of a label: its words, joined.
RECURSIVE Text(_)
Text(words) ==
    IF words = <<>> THEN ""
    ELSE IF Len(words) = 1 THEN words[1]
    ELSE words[1] \o " " \o Text(Tail(words))

\* _handle_alerts lines 153-158: the level, by the keywords of the anomaly
LevelOf(anomaly) ==
    IF Contains(anomaly, <<"Critical">>) \/ Contains(anomaly, <<"Extremely">>) THEN "critical"
    ELSE IF Contains(anomaly, <<"High">>) THEN "warning"
    ELSE "info"

\* _handle_alerts lines 161-176: the metric type, by the keywords of the anomaly
MetricTypeOf(anomaly) ==
    IF Contains(anomaly, <<"CPU">>) THEN "cpu_usage"
    ELSE IF Contains(anomaly, <<"memory">>) THEN "memory_usage"
    ELSE IF Contains(anomaly, <<"load">>) THEN "cpu_load"
    ELSE "cpu_usage"

\* _handle_alerts line 167 divides by memory_total
HandlingRaises(data, anomaly) ==
    MetricTypeOf(anomaly) = "memory_usage" /\ data.memory_total = 0

\* _handle_alerts lines 161-176: current_value (the memory ratio in whole percent)
CurrentValueOf(data, anomaly) ==
    IF Contains(anomaly, <<"CPU">>) THEN data.cpu_usage
    ELSE IF Contains(anomaly, <<"memory">>) THEN (data.memory_used * 100) \div data.memory_total
    ELSE IF Contains(anomaly, <<"load">>) THEN data.cpu_load_1min
    ELSE 0

\* _handle_alerts lines 178-190: the Alert built for one anomaly at time t
AlertFromAnomaly(data, anomaly, t) ==
    LET metric_type == MetricTypeOf(anomaly)
        base == Alert(data.hostname \o "_" \o metric_type \o "_" \o ToString(t),
                      data.hostname, metric_type, LevelOf(anomaly),
                      CurrentValueOf(data, anomaly), t)
    IN  [base EXCEPT !.title = data.hostname \o ": " \o Text(anomaly),
                     !.description = "detected on " \o data.hostname \o ": " \o Text(anomaly)]

\* The state of the AlertManager as one value.
ManagerState ==
    [active_alerts |-> active_alerts, alert_history |-> alert_history,
     suppression_rules |-> suppression_rules, calls |-> calls]

\* process_alert as a function of the manager's state at time t.
ProcessAlertStep(m, alert, t) ==
    LET rules == RulesAfterCheck(m.suppression_rules, alert, t)
        ref == FindSimilarAlert(m.active_alerts, m.alert_history, alert)
        record(path, sent) ==
            [op |-> "process", alert |-> alert, arg |-> alert.id, at |-> t,
             path |-> path, sent |-> sent, minutes |-> 0]
    IN  IF IsSuppressed(m.suppression_rules, alert, t)
        THEN [m EXCEPT !.calls = Append(@, record("suppressed", <<>>))]
        ELSE IF ref # 0
        THEN [m EXCEPT
                 !.alert_history = [@ EXCEPT ![ref] = UpdatedAlert(@, alert)],
                 !.suppression_rules = rules,
                 !.calls = Append(@, record("merged",
                                  UpdateNotifications(m.alert_history[ref], alert)))]
        ELSE [m EXCEPT
                 !.active_alerts = DictSet(@, alert.id, Len(m.alert_history) + 1),
                 !.alert_history = Append(@, alert),
                 !.suppression_rules = rules,
                 !.calls = Append(@, record("created", <<alert>>))]

\* Mutant of HandleAlerts: the anomalies are taken from the last to the first.
RECURSIVE HandleAlertsBackwards(_, _, _, _, _, _, _)
HandleAlertsBackwards(m, data, anomalies, i, t, handed, console_fails) ==
    IF i > Len(anomalies)
    THEN [manager |-> m, handed |-> handed, raised |-> FALSE]
    ELSE IF HandlingRaises(data, anomalies[Len(anomalies) + 1 - i])
    THEN [manager |-> m, handed |-> handed, raised |-> TRUE]
    ELSE LET alert == AlertFromAnomaly(data, anomalies[Len(anomalies) + 1 - i], t)
             after == ProcessAlertStep(m, alert, t)
             notified == after.calls[Len(after.calls)].sent # <<>>
         IN  IF console_fails /\ notified
             THEN [manager |-> after, handed |-> Append(handed, alert), raised |-> TRUE]
             ELSE HandleAlertsBackwards(after, data, anomalies, i + 1, t,
                                        Append(handed, alert), console_fails)

\* _handle_alerts: the loop over the anomalies from position i on; it ends at
\* the first anomaly whose handling raises: by the division of line 167, or in
\* process_alert when the notifier's print fails (send_alert line 38 has no
\* handler, and the manager has already stored the alert). The alerts handed to
\* process_alert are collected in handed.
RECURSIVE HandleAlerts(_, _, _, _, _, _, _)
HandleAlerts(m, data, anomalies, i, t, handed, console_fails) ==
    IF i > Len(anomalies)
    THEN [manager |-> m, handed |-> handed, raised |-> FALSE]
    ELSE IF HandlingRaises(data, anomalies[i])
    THEN [manager |-> m, handed |-> handed, raised |-> TRUE]
    ELSE LET alert == AlertFromAnomaly(data, anomalies[i], t)
             after == ProcessAlertStep(m, alert, t)
             notified == after.calls[Len(after.calls)].sent # <<>>
         IN  IF console_fails /\ notified
             THEN [manager |-> after, handed |-> Append(handed, alert), raised |-> TRUE]
             ELSE HandleAlerts(after, data, anomalies, i + 1, t,
                               Append(handed, alert), console_fails)

\* _print_analysis_result line 129 divides by memory_total
PrintRaises(data) == data.memory_total = 0

\* Mutant of LoopAfterError: the except clause leaves the loop.
LoopAfterErrorBreaks == "stopped"

\* _data_processing_loop lines 118-121: after the except clause, continue
LoopAfterError == "idle"

\* What is kept of a cycle that ended: the snapshot, the result's anomalies,
\* confidence and number of recommendations, how the cycle ended (handled, or
\* error: the except clause of line 118), the alerts handed to process_alert,
\* and whether the notifier's console worked during the cycle.
CycleRecord(data, r, outcome, handed, console_fails) ==
    [data |-> data, anomalies |-> r.anomalies_detected,
     confidence_score |-> r.confidence_score,
     recommendations |-> Len(r.recommendations),
     outcome |-> outcome, handed |-> handed,
     console |-> IF console_fails THEN "failing" ELSE "working"]

\* The stream delivers a snapshot while the system runs: line 101-110, then
\* analyze up to its first await.
ReceiveSnapshot(data) ==
    /\ running
    /\ streaming
    /\ Len(cycles) < MaxCycles
    /\ StartAnalyze(data)

\* analyze has returned: lines 113-121, the printing and the alert handling of
\* the cycle, then the next iteration.
FinishCycle(console_fails) ==
    LET data == context.data
        run == HandleAlerts(ManagerState, data, result.anomalies_detected, 1, now, <<>>,
                            console_fails)
        failed == PrintRaises(data) \/ run.raised
        m == IF PrintRaises(data) THEN ManagerState ELSE run.manager
        handed == IF PrintRaises(data) THEN <<>> ELSE run.handed
    IN  /\ pc = "done"
        /\ active_alerts' = m.active_alerts
        /\ alert_history' = m.alert_history
        /\ suppression_rules' = m.suppression_rules
        /\ calls' = m.calls
        /\ cycles' = Append(cycles, CycleRecord(data, result,
                                IF failed THEN "error" ELSE "handled", handed,
                                console_fails))
        /\ pc' = IF failed THEN LoopAfterError ELSE "idle"
        /\ context' = AnalysisContext(MonitoringData("", 0, 0, 1, 0))
        /\ caller' = ""
        /\ tiers' = <<>>
        /\ model_calls' = <<>>
        /\ result' = NoResult
        /\ UNCHANGED <<now, agent, running, deliveries, email_config, streaming, probe, tasks>>

\* The signal handler of main (line 219) clears running.
SignalStop ==
    /\ running
    /\ running' = FALSE
    /\ UNCHANGED <<cycles, deliveries, email_config, streaming, probe, tasks>>
    /\ UNCHANGED mgrVars
    /\ UNCHANGED agentVars

\* The loop pulls the next snapshot from the stream (which sets the collector's
\* flag when it is the first), finds running cleared and breaks: lines 101-103.
LoopBreak ==
    /\ pc = "idle"
    /\ ~running
    /\ pc' = "stopped"
    /\ streaming' = TRUE
    /\ UNCHANGED <<agent, context, caller, tiers, model_calls, result>>
    /\ UNCHANGED mgrVars
    /\ UNCHANGED <<running, cycles, deliveries, email_config, probe, tasks>>

\* The loop's first pull starts the generator: grpc_client.py line 76.
OpenStream ==
    /\ pc = "idle"
    /\ running
    /\ ~streaming
    /\ streaming' = TRUE
    /\ UNCHANGED <<running, cycles, deliveries, email_config, probe, tasks>>
    /\ UNCHANGED mgrVars
    /\ UNCHANGED agentVars

\* start's finally clause, once the loop has ended: shutdown clears running
\* and stops the stream (main.py lines 194-203, grpc_client.py line 94).
Shutdown ==
    /\ pc = "stopped"
    /\ pc' = "closed"
    /\ running' = FALSE
    /\ streaming' = FALSE
    /\ UNCHANGED <<agent, context, caller, tiers, model_calls, result>>
    /\ UNCHANGED mgrVars
    /\ UNCHANGED <<cycles, deliveries, email_config, probe, tasks>>

\* The snapshots of the stream: normal, CPU-bound, memory-bound, both, and the
\* malformed one (memory_total = 0).
StreamSnapshots ==
    {MonitoringData("h1", cpu, mem[1], mem[2], 2) :
        cpu \in {45, 97},
        mem \in {<<60, 100>>, <<98, 100>>, <<0, 0>>}}

PipelineNext ==
    \/ \E data \in StreamSnapshots : ReceiveSnapshot(data)
    \/ \E analysis \in ChainAnalyses : ChainReturns(analysis)
    \/ ChainRaises
    \/ ChainTimeout
    \/ DirectReturns
    \/ DirectRaises
    \/ \E kr \in KnowledgeResults, raises \in BOOLEAN : GenerateSolutions(kr, raises)
    \/ \E solutions \in ChainSolutions : SolutionReturns(solutions)
    \/ SolutionRaises
    \/ SolutionTimeout
    \/ \E console_fails \in BOOLEAN : FinishCycle(console_fails)
    \/ SignalStop
    \/ LoopBreak
    \/ OpenStream
    \/ Shutdown

\* The processing loop of main.py: agent and manager together.
PipelineSpec == AgentSpecInit /\ [][PipelineNext]_vars

\* The loop with its scheduling: the event loop runs every step of the loop that
\* is ready, and the awaits that have a timeout end; the direct client call
\* (analysis_agent.py line 341) has none.
PipelineLiveSpec ==
    /\ PipelineSpec
    /\ WF_vars(\E kr \in KnowledgeResults, raises \in BOOLEAN : GenerateSolutions(kr, raises))
    /\ WF_vars(ChainTimeout)
    /\ WF_vars(SolutionTimeout)
    /\ WF_vars(\E console_fails \in BOOLEAN : FinishCycle(console_fails))
    /\ WF_vars(LoopBreak)
    /\ WF_vars(Shutdown)

-----------------------------------------------------------------------------
(* alert_manager.py: SimpleAlertNotifier *)

MaxSends == 2

\* What one call of send_alert did on each channel, and whether it raised.
Delivery(alert, console, log, email, raised) ==
    [level |-> alert.level, console |-> console, log |-> log, email |-> email,
     raised |-> raised]

\* send_alert line 44: the email is due
EmailDue(alert) == alert.level \in {"critical", "emergency"} /\ email_config.user

\* send_alert: _print_alert, _log_alert, then the email inside its try. A
\* failing print raises out of send_alert (no handler around line 38); a
\* failing log handler reports its own error and returns; a failing email is
\* caught at line 47.
SendAlert(alert, console_fails, log_fails, email_fails) ==
    /\ Len(deliveries) < MaxSends
    /\ deliveries' = Append(deliveries,
           IF console_fails
           THEN Delivery(alert, "failed", "skipped", "skipped", TRUE)
           ELSE Delivery(alert, "delivered",
                         IF log_fails THEN "failed" ELSE "delivered",
                         IF ~EmailDue(alert) THEN "not_due"
                         ELSE IF email_fails THEN "failed" ELSE "delivered",
                         FALSE))
    /\ UNCHANGED <<running, cycles, email_config, streaming, probe, tasks>>
    /\ UNCHANGED mgrVars
    /\ UNCHANGED agentVars

\* SimpleAlertNotifier.__init__: the email user comes from the settings.
NotifierInit ==
    /\ ManagerInit
    /\ AgentInit(FALSE, FALSE, FALSE)
    /\ running = TRUE
    /\ cycles = <<>>
    /\ deliveries = <<>>
    /\ email_config \in {[user |-> u] : u \in BOOLEAN}
    /\ streaming = FALSE
    /\ tasks = [t \in Tasks |-> NoTask]
    /\ probe = NoProbe

NotifierNext ==
    \E level \in AlertLevel, console_fails \in BOOLEAN, log_fails \in BOOLEAN,
       email_fails \in BOOLEAN :
        SendAlert(Alert("a1", "h1", "cpu_usage", level, ReadingAt(now), now),
                  console_fails, log_fails, email_fails)

\* The notifier alone, under any outcome of its channels.
NotifierSpec == NotifierInit /\ [][NotifierNext]_vars

-----------------------------------------------------------------------------
(* The pure functions of the agent, each applied to the inputs of a bounded set *)

MaxIssues == 3

\* The labels _detect_issues_locally can emit.
DetectorLabels ==
    {CpuSevere, CpuElevated, MemorySevere, MemoryElevated, LoadSevere, LoadElevated,
     IoBottleneck}

\* The issue lists of at most MaxIssues labels.
IssueLists == UNION {[1..n -> DetectorLabels] : n \in 0..MaxIssues}

\* The probe of a function on an argument, before and after its application.
Pending(op, input) == [op |-> op, input |-> input, applied |-> FALSE, output |-> <<>>]

ProbeInit(op, inputs) ==
    /\ ManagerInit
    /\ AgentInit(FALSE, FALSE, FALSE)
    /\ running = TRUE
    /\ cycles = <<>>
    /\ deliveries = <<>>
    /\ email_config = [user |-> FALSE]
    /\ streaming = FALSE
    /\ tasks = [t \in Tasks |-> NoTask]
    /\ probe \in {Pending(op, input) : input \in inputs}

\* The function is applied to its argument.
Apply(op, output) ==
    /\ probe.op = op
    /\ ~probe.applied
    /\ probe' = [probe EXCEPT !.applied = TRUE, !.output = output]
    /\ UNCHANGED <<running, cycles, deliveries, email_config, streaming, tasks>>
    /\ UNCHANGED mgrVars
    /\ UNCHANGED agentVars

\* _should_use_llm on every issue list
GateNext == Apply("_should_use_llm", ShouldUseLlm(probe.input))

GateSpec == ProbeInit("_should_use_llm", IssueLists) /\ [][GateNext]_vars

\* _get_rule_based_analysis on every issue list
RuleBasedNext == Apply("_get_rule_based_analysis", GetRuleBasedAnalysis(probe.input))

RuleBasedSpec == ProbeInit("_get_rule_based_analysis", IssueLists) /\ [][RuleBasedNext]_vars

\* _get_fallback_solutions on every issue list, with no knowledge result
TemplateNext == Apply("_get_fallback_solutions", GetFallbackSolutions(probe.input, <<>>))

TemplateSpec == ProbeInit("_get_fallback_solutions", IssueLists) /\ [][TemplateNext]_vars

\* Snapshots on and around every threshold of the detector.
ThresholdSnapshots ==
    {MonitoringData("h1", cpu, mem, 100, load) :
        cpu \in {45, 49, 50, 80, 81, 95, 96},
        mem \in {60, 85, 86, 95, 96},
        load \in {2, 5, 6, 8, 9, 10, 11}}

\* _detect_issues_locally on every snapshot, and analyze on the same snapshot
DetectorNext ==
    \/ Apply("_detect_issues_locally", DetectIssuesLocally(probe.input))
    \/ probe.applied /\ StartAnalyze(probe.input)

DetectorSpec ==
    ProbeInit("_detect_issues_locally", ThresholdSnapshots) /\ [][DetectorNext]_vars

-----------------------------------------------------------------------------
(* The AlertManager under any sequence of calls; the agent stays idle. *)

Init ==
    /\ ManagerInit
    /\ AgentInit(FALSE, FALSE, FALSE)
    /\ SystemInit

Next ==
    \/ \E alert \in IncomingAlerts : ProcessAlert(alert)
    \/ \E alert_id \in Ids : ResolveAlert(alert_id)
    \/ \E h \in Hosts, m \in MetricType, d \in Durations : SuppressAlerts(h, m, d)
    \/ Tick

Spec == Init /\ [][Next]_vars

\* Alerts as a caller of process_alert may hand them in: the resolved flag is a
\* field of the dataclass like any other, and may come set.
AnyFlagAlerts ==
    {[alert EXCEPT !.resolved = flag,
                   !.resolved_at = IF flag THEN alert.timestamp ELSE NoneTime] :
        alert \in IncomingAlerts, flag \in BOOLEAN}

AnyFlagNext ==
    \/ \E alert \in AnyFlagAlerts : ProcessAlert(alert)
    \/ \E alert_id \in Ids : ResolveAlert(alert_id)
    \/ \E h \in Hosts, m \in MetricType, d \in Durations : SuppressAlerts(h, m, d)
    \/ Tick

\* The AlertManager under any sequence of calls, with alerts of either flag.
AnyFlagSpec == Init /\ [][AnyFlagNext]_vars

-----------------------------------------------------------------------------
(* process_alert as concurrent coroutines of one event loop: a coroutine   *)
(* runs from its start to its await of notifier.send_alert in one step and *)
(* from there to its return in another; the other coroutines may run in    *)
(* between. A call that awaits nothing (suppressed, or merged at the same  *)
(* level) is one step.                                                     *)

\* The calls that stand at their await.
InFlight == {t \in Tasks : tasks[t].pc = "await_send"}

\* Mutant of MatchAtBegin: the insertions of the calls that stand at their
\* await are not seen yet, as if the alert were stored after the await.
MatchBeforeOthersInsert(alert) ==
    LET pending == {tasks[t].ref : t \in {u \in InFlight : tasks[u].path = "created"}}
        hits == {i \in 1..Len(active_alerts) :
                    /\ active_alerts[i].ref \notin pending
                    /\ Similar(alert_history[active_alerts[i].ref], alert)}
    IN  IF hits = {} THEN 0
        ELSE active_alerts[CHOOSE i \in hits : \A j \in hits : i <= j].ref

\* The match search of a call that starts now: it reads the active set as the
\* calls that started before it left it.
MatchAtBegin(alert) == FindSimilarAlert(active_alerts, alert_history, alert)

\* process_alert from its start to its first await (or to its return)
BeginProcessAlert(t, alert) ==
    LET rules == RulesAfterCheck(suppression_rules, alert, now)
        ref == MatchAtBegin(alert)
        waiting(path, r) == [tasks EXCEPT ![t] = [pc |-> "await_send", alert |-> alert,
                                                  path |-> path, ref |-> r]]
    IN  /\ tasks[t].pc = "idle"
        /\ Len(calls) + Cardinality(InFlight) < MaxCalls
        /\ UNCHANGED agentVars
        /\ UNCHANGED <<running, cycles, deliveries, email_config, streaming, probe>>
        /\ IF IsSuppressed(suppression_rules, alert, now)
           THEN /\ calls' = Append(calls, CallRecord("process", alert, alert.id, "suppressed", <<>>))
                /\ UNCHANGED <<now, active_alerts, alert_history, suppression_rules, tasks>>
           ELSE IF ref # 0
           THEN /\ alert_history' =
                       [alert_history EXCEPT ![ref] = UpdatedAlert(alert_history[ref], alert)]
                /\ suppression_rules' = rules
                /\ IF UpdateNotifications(alert_history[ref], alert) = <<>>
                   THEN /\ calls' = Append(calls, CallRecord("process", alert, alert.id,
                                                             "merged", <<>>))
                        /\ UNCHANGED tasks
                   ELSE /\ tasks' = waiting("merged", ref)
                        /\ UNCHANGED calls
                /\ UNCHANGED <<now, active_alerts>>
           ELSE /\ active_alerts' = DictSet(active_alerts, alert.id, Len(alert_history) + 1)
                /\ alert_history' = Append(alert_history, alert)
                /\ suppression_rules' = rules
                /\ tasks' = waiting("created", Len(alert_history) + 1)
                /\ UNCHANGED <<now, calls>>

\* process_alert from its await to its return: send_alert runs on the object
\* the call holds, as it is by then.
CompleteProcessAlert(t) ==
    /\ tasks[t].pc = "await_send"
    /\ calls' = Append(calls, CallRecord("process", tasks[t].alert, tasks[t].alert.id,
                                         tasks[t].path, <<alert_history[tasks[t].ref]>>))
    /\ tasks' = [tasks EXCEPT ![t] = NoTask]
    /\ UNCHANGED <<now, active_alerts, alert_history, suppression_rules>>
    /\ UNCHANGED agentVars
    /\ UNCHANGED <<running, cycles, deliveries, email_config, streaming, probe>>

ConcurrentNext ==
    \/ \E t \in Tasks, alert \in IncomingAlerts : BeginProcessAlert(t, alert)
    \/ \E t \in Tasks : CompleteProcessAlert(t)
    \/ Tick

\* The AlertManager with process_alert calls in flight at the same time, and
\* no other call.
ConcurrentSpec == Init /\ [][ConcurrentNext]_vars

-----------------------------------------------------------------------------
(* Observations of the AlertManager state *)

\* The objects of the active set, in dict order (get_active_alerts).
ActiveObjects == [i \in 1..Len(active_alerts) |-> alert_history[active_alerts[i].ref]]

\* The positions of the active set whose alert is of the pair (hostname, metric_type).
ActiveOfPair(hostname, metric_type) ==
    {i \in 1..Len(active_alerts) :
        /\ ActiveObjects[i].hostname = hostname
        /\ ActiveObjects[i].metric_type = metric_type}

SamePair(a, b) == a.hostname = b.hostname /\ a.metric_type = b.metric_type

LastCall == calls[Len(calls)]
PrevCall == calls[Len(calls) - 1]

\* The last two calls are process_alert(A) taking the creation path, then
\* process_alert(B) for the same pair, with no call in between.
CreatedThenProcessed ==
    /\ Len(calls) >= 2
    /\ PrevCall.op = "process" /\ PrevCall.path = "created"
    /\ LastCall.op = "process" /\ SamePair(LastCall.alert, PrevCall.alert)

-----------------------------------------------------------------------------
(* C1: after any sequence of process_alert, resolve_alert and suppress_alerts
   calls, the active set holds at most one alert per (hostname, metric_type);
   a process_alert whose alert matches an active alert adds no second entry. *)
C1_AtMostOneActivePerPair ==
    \A h \in Hosts, m \in MetricType : Cardinality(ActiveOfPair(h, m)) <= 1

\* Two alerts of different pairs are active, and the last call was a
\* process_alert that matched one of them and was merged into it.
C1_Witness ==
    /\ Len(calls) >= 1
    /\ LastCall.op = "process" /\ LastCall.path = "merged"
    /\ Len(active_alerts) = 2
    /\ ActiveOfPair(LastCall.alert.hostname, LastCall.alert.metric_type) # {}

(* C2: while a suppression rule of (hostname, metric_type) is unexpired,
   a process_alert call for that pair makes no notifier call and leaves the
   active set and the history log as they were, the alert objects included,
   also when an active alert of the pair has another level than the incoming. *)
C2_SuppressedCallChangesNothing ==
    [][ ( /\ Len(calls') = Len(calls) + 1
          /\ calls'[Len(calls')].op = "process"
          /\ LET a == calls'[Len(calls')].alert
                 k == SuppressionKey(a.hostname, a.metric_type)
             IN  k \in DOMAIN suppression_rules /\ now < suppression_rules[k] )
        => ( /\ calls'[Len(calls')].sent = <<>>
             /\ active_alerts' = active_alerts
             /\ alert_history' = alert_history ) ]_vars

\* The last call was a process_alert for a pair under an unexpired rule while
\* an active alert of that pair had a different level (a suppressed escalation).
C2_Witness ==
    /\ Len(calls) >= 1
    /\ LastCall.op = "process"
    /\ LET a == LastCall.alert
           k == SuppressionKey(a.hostname, a.metric_type)
       IN  /\ k \in DOMAIN suppression_rules
           /\ LastCall.at < suppression_rules[k]
           /\ \E i \in ActiveOfPair(a.hostname, a.metric_type) :
                  ActiveObjects[i].level # a.level

(* C3: process_alert(A) creating a warning alert, directly followed by
   process_alert(B) for the same pair with level critical, leaves exactly one
   active alert of the pair, at level critical with B's description, and makes
   exactly two notifier calls: one for the creation, one for the level change. *)
C3_EscalationNotifiesTwice ==
    ( /\ CreatedThenProcessed
      /\ PrevCall.alert.level = "warning"
      /\ LastCall.alert.level = "critical" )
    => LET A == PrevCall.alert
           B == LastCall.alert
           act == ActiveOfPair(A.hostname, A.metric_type)
       IN  /\ Cardinality(act) = 1
           /\ \A i \in act :
                  /\ ActiveObjects[i].id = A.id
                  /\ ActiveObjects[i].level = "critical"
                  /\ ActiveObjects[i].description = B.description
           /\ PrevCall.sent = <<A>>
           /\ Len(LastCall.sent) = 1
           /\ LastCall.sent[1].id = A.id
           /\ LastCall.sent[1].level = "critical"

C3_Witness ==
    /\ CreatedThenProcessed
    /\ PrevCall.alert.level = "warning"
    /\ LastCall.alert.level = "critical"
    /\ LastCall.alert.id # PrevCall.alert.id

(* C4: process_alert(A) creating an alert, directly followed by
   process_alert(B) for the same pair and the same level, leaves exactly one
   active alert of the pair, with B's current_value and timestamp, and the
   second call makes no notifier call (one notification in total). *)
C4_SameLevelMergeIsSilent ==
    ( /\ CreatedThenProcessed
      /\ LastCall.alert.level = PrevCall.alert.level )
    => LET A == PrevCall.alert
           B == LastCall.alert
           act == ActiveOfPair(A.hostname, A.metric_type)
       IN  /\ Cardinality(act) = 1
           /\ \A i \in act :
                  /\ ActiveObjects[i].id = A.id
                  /\ ActiveObjects[i].current_value = B.current_value
                  /\ ActiveObjects[i].timestamp = B.timestamp
           /\ PrevCall.sent = <<A>>
           /\ LastCall.sent = <<>>

\* The second alert was submitted later, with another reading, than the first.
C4_Witness ==
    /\ CreatedThenProcessed
    /\ LastCall.alert.level = PrevCall.alert.level
    /\ LastCall.alert.timestamp # PrevCall.alert.timestamp
    /\ LastCall.alert.current_value # PrevCall.alert.current_value


-----------------------------------------------------------------------------
(* Observations of an analysis cycle *)

TierAttempted(tier) == \E i \in 1..Len(tiers) : tiers[i].tier = tier

TierOk(tier) == \E i \in 1..Len(tiers) : tiers[i] = Attempt(tier, "ok")

TierFailed(tier) ==
    \E i \in 1..Len(tiers) :
        tiers[i].tier = tier /\ tiers[i].outcome \in {"error", "timeout"}

\* The position of a tier on the ladder.
TierRank(tier) == CASE tier = "chain" -> 1 [] tier = "direct" -> 2 [] tier = "rule" -> 3

\* The diagnosis carries the mark of _get_rule_based_analysis.
IsRuleBased(analysis) ==
    analysis.root_cause # <<>> /\ Head(analysis.root_cause) = "jiyu guize jiance: "

\* analyze took the except of line 185.
CompleteFallback == result.analysis_details.keys = {"fallback", "error"}

\* C5: analyze always ends with a result, never an exception; and for a snapshot
\* with at least one issue, when neither the structured chain nor the direct
\* completion succeeded (each failed or was not available), the result carries
\* one diagnosis, which is the rule-based diagnosis of the detected issues.
C5_RuleBasedWhenModelsFail ==
    pc = "done" =>
        /\ result # NoResult
        /\ (context.issues # <<>> /\ ~TierOk("chain") /\ ~TierOk("direct")) =>
               /\ ~CompleteFallback
               /\ {"root_cause", "severity", "impact"} \subseteq result.analysis_details.keys
               /\ result.analysis_details.analysis =
                      GetRuleBasedAnalysis(result.anomalies_detected)
               /\ IsRuleBased(result.analysis_details.analysis)

C5_Witness ==
    /\ pc = "done"
    /\ tiers = <<Attempt("chain", "error"), Attempt("direct", "error"), Attempt("rule", "ok")>>
    /\ IsRuleBased(result.analysis_details.analysis)

\* C6: the confidence of the result of analyze is 0.6 when no issue was found,
\* 0.9 only when the structured chain produced the diagnosis, and 0.7 when the
\* direct completion or the rules produced it, also after a failed chain.
C6_ConfidenceFollowsProducingTier ==
    (pc = "done" /\ ~CompleteFallback) =>
        result.confidence_score =
            IF context.issues = <<>> THEN 6
            ELSE IF TierOk("chain") THEN 9
            ELSE 7

\* C7: when the gate is closed for the detected issues, the cycle makes no model
\* call, and its diagnosis is the rule-based one.
C7_ClosedGateMakesNoModelCall ==
    (context.issues # <<>> /\ ~ShouldUseLlm(context.issues)) =>
        /\ model_calls = <<>>
        /\ pc = "done" => IsRuleBased(result.analysis_details.analysis)

\* C8: in one cycle the tiers are attempted in the order chain, direct
\* completion, rules, each at most once; a tier is attempted only after every
\* tier attempted before it failed or timed out; and without a model client the
\* direct completion is never attempted: the rules follow at once.
C8_TiersInLadderOrder ==
    /\ \A i, j \in 1..Len(tiers) :
           i < j => TierRank(tiers[i].tier) < TierRank(tiers[j].tier)
    /\ \A i \in 1..(Len(tiers) - 1) : tiers[i].outcome \in {"error", "timeout"}
    /\ TierAttempted("direct") => agent.openai_client
    /\ (~agent.openai_client /\ pc \in {"solutions", "await_solution", "done"}
            /\ context.issues # <<>> /\ ~TierOk("chain")) =>
           (TierAttempted("rule") /\ ~TierAttempted("direct"))

C8_Witness ==
    /\ pc = "done"
    /\ tiers = <<Attempt("chain", "timeout"), Attempt("direct", "error"), Attempt("rule", "ok")>>

\* C9: when the structured chain was attempted and failed or timed out, the
\* result records fallback_used = true; when it succeeded, the result records
\* fallback_used = false.
C9_FallbackUsedTracksChain ==
    pc = "done" =>
        /\ TierFailed("chain") =>
               /\ "fallback_used" \in result.analysis_details.keys
               /\ result.analysis_details.fallback_used
        /\ TierOk("chain") =>
               /\ "fallback_used" \in result.analysis_details.keys
               /\ ~result.analysis_details.fallback_used

C9_Witness ==
    /\ pc = "done"
    /\ tiers = <<Attempt("chain", "timeout"), Attempt("rule", "ok")>>
    /\ result.analysis_details.fallback_used

\* C10: every tier that can suspend is bounded by a timeout, so a cycle that has
\* started ends with a result even when the model never answers a call.
C10_AnalyzeEventuallyReturns == (pc # "idle") ~> (pc = "done")

-----------------------------------------------------------------------------
(* Observations of resolution and of the statistics *)

\* The last two calls are process_alert(A) taking the creation path, then
\* resolve_alert(A.id), with no call in between.
CreatedThenResolved ==
    /\ Len(calls) >= 2
    /\ PrevCall.op = "process" /\ PrevCall.path = "created"
    /\ LastCall.op = "resolve" /\ LastCall.arg = PrevCall.alert.id

\* The alerts of the history log whose resolved flag is set.
ResolvedInHistory == {i \in 1..Len(alert_history) : alert_history[i].resolved}

\* The step just taken is a call of the manager; TheCall is its record.
IsCall == Len(calls') = Len(calls) + 1
TheCall == calls'[Len(calls')]

(* C11: after process_alert(alert) creates an alert and resolve_alert(alert.id)
   follows, no active alert carries that id or is that object, the object is
   still the last entry of the history log with resolved = true, and, when
   these were the only two calls, the statistics report resolved_alerts = 1
   and active_alerts = 0. *)
C11_ResolveRoundTrip ==
    CreatedThenResolved =>
        LET A == PrevCall.alert
            kept == alert_history[Len(alert_history)]
        IN  /\ A.id \notin DictKeys(active_alerts)
            /\ \A i \in 1..Len(active_alerts) : active_alerts[i].ref # Len(alert_history)
            /\ kept.id = A.id /\ SamePair(kept, A)
            /\ kept.resolved
            /\ Len(calls) = 2 =>
                   /\ ActiveObjects = <<>>
                   /\ GetAlertStatistics.resolved_alerts = 1
                   /\ GetAlertStatistics.active_alerts = 0
                   /\ GetAlertStatistics.total_alerts = 1

C11_Witness ==
    /\ CreatedThenResolved
    /\ Len(calls) = 2
    /\ LastCall.path = "resolved"
    /\ GetAlertStatistics.resolved_alerts = 1

(* C12: in every reachable state the resolved_alerts figure of
   get_alert_statistics equals the number of alerts of the history log whose
   resolved flag is true, whatever ids the processed alerts carry. *)
C12_ResolvedCountMatchesFlags ==
    GetAlertStatistics.resolved_alerts = Cardinality(ResolvedInHistory)

(* C13: every alert of the history log and of the active set has resolved_at
   set if and only if its resolved flag is true. *)
C13_ResolvedAtIffResolved ==
    /\ \A i \in 1..Len(alert_history) :
           (alert_history[i].resolved_at # NoneTime) <=> alert_history[i].resolved
    /\ \A i \in 1..Len(active_alerts) :
           (ActiveObjects[i].resolved_at # NoneTime) <=> ActiveObjects[i].resolved

\* One alert was resolved and stamped, another is active and unstamped.
C13_Witness ==
    /\ \E i \in ResolvedInHistory : alert_history[i].resolved_at # NoneTime
    /\ \E i \in 1..Len(active_alerts) :
           ~ActiveObjects[i].resolved /\ ActiveObjects[i].resolved_at = NoneTime

(* C14: an entry of the active set is still there, with the same object,
   after every step, unless the step is a resolve_alert call naming its id:
   no process_alert and no suppress_alerts removes or replaces an entry. *)
C14_ActiveEntriesLeaveOnlyByResolve ==
    [][ \A i \in 1..Len(active_alerts) :
            \/ \E j \in 1..Len(active_alerts') : active_alerts'[j] = active_alerts[i]
            \/ /\ IsCall
               /\ TheCall.op = "resolve"
               /\ TheCall.arg = active_alerts[i].id ]_vars

(* C15: a suppression rule leaves the rules only in a process_alert call for
   its key made when the clock has reached its expiry, and such a call always
   removes it; that call then creates the alert and notifies, or merges it
   and notifies exactly when the level differs. No other step removes a rule. *)
C15_RulesExpireLazily ==
    [][ /\ \A k \in DOMAIN suppression_rules :
               k \notin DOMAIN suppression_rules' =>
                   /\ IsCall
                   /\ TheCall.op = "process"
                   /\ SuppressionKey(TheCall.alert.hostname, TheCall.alert.metric_type) = k
                   /\ now >= suppression_rules[k]
        /\ ( /\ IsCall
             /\ TheCall.op = "process"
             /\ LET k == SuppressionKey(TheCall.alert.hostname, TheCall.alert.metric_type)
                IN  k \in DOMAIN suppression_rules /\ now >= suppression_rules[k] )
           => LET k == SuppressionKey(TheCall.alert.hostname, TheCall.alert.metric_type)
                  pair == ActiveOfPair(TheCall.alert.hostname, TheCall.alert.metric_type)
              IN  /\ k \notin DOMAIN suppression_rules'
                  /\ IF pair = {}
                     THEN /\ TheCall.path = "created"
                          /\ TheCall.sent = <<TheCall.alert>>
                          /\ Len(alert_history') = Len(alert_history) + 1
                          /\ TheCall.alert.id \in DictKeys(active_alerts')
                     ELSE /\ TheCall.path = "merged"
                          /\ active_alerts' = active_alerts
                          /\ Len(alert_history') = Len(alert_history)
                          /\ (TheCall.sent # <<>>) <=>
                                 (\E i \in pair : ActiveObjects[i].level # TheCall.alert.level) ]_vars

\* A rule was installed for the pair of an active alert, it expired, and the
\* last call, a process_alert of that pair with another level, removed it,
\* merged and notified.
C15_Witness ==
    /\ Len(calls) = 3
    /\ calls[2].op = "suppress"
    /\ LastCall.op = "process" /\ LastCall.path = "merged" /\ LastCall.sent # <<>>
    /\ calls[2].arg = SuppressionKey(LastCall.alert.hostname, LastCall.alert.metric_type)
    /\ calls[2].arg \notin DOMAIN suppression_rules

-----------------------------------------------------------------------------
(* Observations of the processing loop *)

\* The snapshot of the end-to-end scenario: CPU 97%, memory 60%, load 2.0.
CpuSnapshot == MonitoringData("h1", 97, 60, 100, 2)

LastCycle == cycles[Len(cycles)]

\* The metric an issue label of the detector is about (none for the compound label).
MetricOfLabel(label) ==
    IF label \in {CpuSevere, CpuElevated} THEN "cpu_usage"
    ELSE IF label \in {MemorySevere, MemoryElevated} THEN "memory_usage"
    ELSE IF label \in {LoadSevere, LoadElevated} THEN "cpu_load"
    ELSE "none"

\* The step just taken ended a cycle in the except clause of the loop.
CycleFailed ==
    Len(cycles') = Len(cycles) + 1 /\ cycles'[Len(cycles')].outcome = "error"

\* process_alert agrees, call by call, with its functional form used by the loop.
ProcessAlertStepAgrees ==
    [][ (IsCall /\ TheCall.op = "process") =>
            LET m == ProcessAlertStep(ManagerState, TheCall.alert, now)
            IN  /\ m.active_alerts = active_alerts'
                /\ m.alert_history = alert_history'
                /\ m.suppression_rules = suppression_rules'
                /\ m.calls = calls' ]_vars

(* C16: with the console working, a cycle on the snapshot with CPU 97%,
   memory 60% and load 2.0 detects
   exactly one issue (CPU severely high), for which the gate is open, and hands
   the manager exactly one alert, of level critical and metric type cpu_usage;
   as the first cycle, the manager creates that alert and notifies once. *)
C16_CpuSnapshotRaisesOneCriticalAlert ==
    \A c \in 1..Len(cycles) :
        (cycles[c].data = CpuSnapshot /\ cycles[c].console = "working") =>
            /\ cycles[c].anomalies = <<CpuSevere>>
            /\ ShouldUseLlm(cycles[c].anomalies)
            /\ cycles[c].outcome = "handled"
            /\ Len(cycles[c].handed) = 1
            /\ cycles[c].handed[1].metric_type = "cpu_usage"
            /\ cycles[c].handed[1].level = "critical"
            /\ Len(cycles) = 1 =>
                   /\ Len(calls) = 1
                   /\ calls[1].path = "created"
                   /\ calls[1].sent = <<cycles[c].handed[1]>>
                   /\ Len(active_alerts) = 1

(* C17: every alert the loop hands to the manager has the metric type of its
   issue: cpu_usage for a CPU label, memory_usage for a memory label, cpu_load
   for a load label; so a first cycle that detects a CPU issue and a memory
   issue leaves two active alerts, of different metric types. *)
C17_AlertsCarryTheMetricOfTheirIssue ==
    \A c \in 1..Len(cycles) :
        cycles[c].outcome = "handled" =>
            /\ Len(cycles[c].handed) = Len(cycles[c].anomalies)
            /\ \A i \in 1..Len(cycles[c].anomalies) :
                   MetricOfLabel(cycles[c].anomalies[i]) # "none" =>
                       cycles[c].handed[i].metric_type = MetricOfLabel(cycles[c].anomalies[i])
            /\ ( /\ Len(cycles) = 1
                 /\ \E i, j \in 1..Len(cycles[c].anomalies) :
                        /\ MetricOfLabel(cycles[c].anomalies[i]) = "cpu_usage"
                        /\ MetricOfLabel(cycles[c].anomalies[j]) = "memory_usage" )
               => /\ Len(active_alerts) = 2
                  /\ ActiveObjects[1].metric_type # ActiveObjects[2].metric_type

(* C18: a cycle that ends in an exception leaves the loop waiting for the next
   snapshot with running untouched; the loop stops only once running is
   cleared; and while the system runs the next snapshot is taken up. *)
C18_FailingCycleKeepsLoopAlive ==
    /\ [](pc = "stopped" => ~running)
    /\ [][CycleFailed => (pc' = "idle" /\ running' = running)]_vars
    /\ []( ( /\ Len(cycles) >= 1 /\ Len(cycles) < MaxCycles
             /\ LastCycle.outcome = "error"
             /\ pc = "idle" /\ running )
           => \A data \in StreamSnapshots : ENABLED ReceiveSnapshot(data) )

\* A cycle failed while alerting, and the cycle after it was analyzed and its
\* alert processed.
C18_Witness ==
    /\ Len(cycles) = 2
    /\ cycles[1].outcome = "error"
    /\ Len(cycles[1].handed) = 1
    /\ cycles[2].outcome = "handled"
    /\ Len(cycles[2].handed) >= 1
    /\ Len(calls) >= 1

(* C19: with the console working, a cycle on a malformed snapshot
   (memory_total = 0) produces the
   synthetic result (confidence 0.3, one issue, one recommendation), and that
   result reaches the alert handling of the same cycle: an alert for it is
   handed to process_alert. *)
C19_SyntheticResultReachesAlertHandling ==
    \A c \in 1..Len(cycles) :
        (cycles[c].data.memory_total = 0 /\ cycles[c].console = "working") =>
            /\ cycles[c].confidence_score = 3
            /\ Len(cycles[c].anomalies) = 1
            /\ cycles[c].recommendations = 1
            /\ cycles[c].outcome = "handled"
            /\ Len(cycles[c].handed) = 1

(* C20: in every call of send_alert, a failure of one channel (console, alert
   log or email) leaves the call returning normally and the other channels
   attempted: none is skipped because another one failed. *)
C20_ChannelFailuresAreIsolated ==
    \A i \in 1..Len(deliveries) :
        /\ ~deliveries[i].raised
        /\ deliveries[i].console # "skipped"
        /\ deliveries[i].log # "skipped"
        /\ deliveries[i].email # "skipped"

-----------------------------------------------------------------------------
(* Observations of cancellation and of the order of processing *)

\* The alerts of the process_alert calls made so far, in call order.
ProcessedAlerts ==
    [k \in 1..Len(calls) |-> calls[k].alert]

\* The alerts the loop constructed, cycle after cycle.
RECURSIVE HandedUpTo(_)
HandedUpTo(c) == IF c = 0 THEN <<>> ELSE HandedUpTo(c - 1) \o cycles[c].handed

\* The step takes a snapshot into analysis.
SnapshotTaken == pc = "idle" /\ pc' \notin {"idle", "stopped"}

(* C21: once running is cleared, the loop ends and the stream is stopped
   (the cycle in flight having run to its end); no snapshot is taken into
   analysis while running is cleared; and every alert the alert path
   constructed, in any cycle, was passed to process_alert. *)
C21_CancellationDrainsAndStops ==
    /\ (~running) ~> (pc = "closed" /\ ~streaming)
    /\ [][~running => ~SnapshotTaken]_vars
    /\ [](ProcessedAlerts = HandedUpTo(Len(cycles)))

\* The title _handle_alerts gives the alert of an anomaly (line 183).
TitleFor(data, anomaly) == data.hostname \o ": " \o Text(anomaly)

(* C22: a snapshot is taken into analysis only when every earlier cycle has
   ended and every alert of the earlier cycles has gone through process_alert;
   the manager sees the alerts cycle after cycle, and within a cycle the i-th
   alert processed is the alert of the i-th issue of the result. *)
C22_OneSnapshotAtATimeInIssueOrder ==
    /\ [][SnapshotTaken =>
            /\ result = NoResult
            /\ ProcessedAlerts = HandedUpTo(Len(cycles))]_vars
    /\ [][Len(cycles') = Len(cycles) + 1 =>
            /\ cycles'[Len(cycles')].data = context.data
            /\ Len(calls') = Len(calls) + Len(cycles'[Len(cycles')].handed)
            /\ \A i \in 1..Len(cycles'[Len(cycles')].handed) :
                   /\ calls'[Len(calls) + i].alert = cycles'[Len(cycles')].handed[i]
                   /\ calls'[Len(calls) + i].alert.title =
                          TitleFor(context.data, result.anomalies_detected[i])]_vars

\* A cycle handed two different alerts, and the next snapshot is in analysis.
C22_Witness ==
    /\ Len(cycles) = 1
    /\ Len(cycles[1].handed) = 2
    /\ cycles[1].handed[1].title # cycles[1].handed[2].title
    /\ Len(calls) = 2
    /\ pc \notin {"idle", "stopped", "closed"}

-----------------------------------------------------------------------------
(* Observations of the agent's pure functions *)

\* The labels the detector marks as severe, a bottleneck or a shortage, and
\* the labels of merely elevated readings.
ComplexLabels == {CpuSevere, MemorySevere, LoadSevere, IoBottleneck}
SimpleLabels == {CpuElevated, MemoryElevated, LoadElevated}

Applied(op) == probe.op = op /\ probe.applied

(* C23: the gate is open exactly for the issue lists with at least one label
   of a severe reading, a bottleneck or a shortage; it is closed for the empty
   list and for the lists of elevated readings only. *)
C23_GateOpensExactlyForComplexIssues ==
    Applied("_should_use_llm") =>
        /\ probe.output = (\E i \in 1..Len(probe.input) : probe.input[i] \in ComplexLabels)
        /\ probe.input = <<>> => probe.output = FALSE
        /\ (\A i \in 1..Len(probe.input) : probe.input[i] \in SimpleLabels)
               => probe.output = FALSE

\* The gate was applied to a list whose only complex label is the bottleneck one.
C23_Witness ==
    /\ Applied("_should_use_llm")
    /\ probe.input = <<CpuElevated, IoBottleneck>>
    /\ probe.output = TRUE

\* The readings of the snapshot are at or below the elevated thresholds.
AtOrBelowThresholds(data) ==
    /\ data.cpu_usage <= 80
    /\ data.memory_used * 100 <= 85 * data.memory_total
    /\ data.cpu_load_1min <= 8

\* The I/O-bound signature: load high while the CPU is low.
IoBoundSignature(data) == data.cpu_load_1min > 5 /\ data.cpu_usage < 50

(* C24 as stated: for every snapshot with CPU, memory ratio and load at or
   below their elevated thresholds the detector returns the empty list, and
   analyze reports no anomaly. *)
C24_QuietSnapshotHasNoIssue ==
    /\ (Applied("_detect_issues_locally") /\ AtOrBelowThresholds(probe.input))
           => probe.output = <<>>
    /\ (pc = "done" /\ AtOrBelowThresholds(context.data))
           => result.anomalies_detected = <<>>

(* C24 amended: for every snapshot with CPU, memory ratio and load at or below
   their elevated thresholds and without the I/O-bound signature (load above 5
   with CPU below 50), the detector returns the empty list, and analyze
   reports no anomaly. *)
C24_QuietSnapshotWithoutIoSignatureHasNoIssue ==
    /\ ( /\ Applied("_detect_issues_locally")
         /\ AtOrBelowThresholds(probe.input)
         /\ ~IoBoundSignature(probe.input) )
           => probe.output = <<>>
    /\ ( /\ pc = "done"
         /\ AtOrBelowThresholds(context.data)
         /\ ~IoBoundSignature(context.data) )
           => /\ result.anomalies_detected = <<>>
              /\ result.performance_issues = <<>>

\* The detector and analyze have run on the snapshot with every reading on its
\* elevated threshold.
C24_Witness ==
    /\ Applied("_detect_issues_locally")
    /\ probe.input = MonitoringData("h1", 80, 85, 100, 8)
    /\ probe.output = <<>>
    /\ pc = "done"
    /\ context.data = probe.input

\* No element of the list occurs twice.
NoDuplicates(list) == \A i, j \in 1..Len(list) : list[i] = list[j] => i = j

(* C25: whichever tier produced the recommendation set of a finished analysis
   (structured chain, mock chain or rule templates), each of its three lists
   is free of duplicates and within its cap: 5 immediate actions, 3 monitoring
   steps, 3 preventive measures. *)
C25_RecommendationListsDedupedAndCapped ==
    (pc = "done" /\ context.solutions # NoSolutions) =>
        /\ NoDuplicates(context.solutions.immediate_actions)
        /\ NoDuplicates(context.solutions.monitoring_steps)
        /\ NoDuplicates(context.solutions.preventive_measures)
        /\ Len(context.solutions.immediate_actions) <= 5
        /\ Len(context.solutions.monitoring_steps) <= 3
        /\ Len(context.solutions.preventive_measures) <= 3

(* C26: the confidence score of every result analyze returns, the result of
   the failure path included, lies between 0 and 1 and is one of 0.3, 0.6, 0.7
   and 0.9 (the model counts in tenths). *)
C26_ConfidenceIsOneOfFourValues ==
    pc = "done" =>
        /\ result.confidence_score >= 0
        /\ result.confidence_score <= 10
        /\ result.confidence_score \in {3, 6, 7, 9}
        /\ CompleteFallback => result.confidence_score = 3

\* analyze returned after the direct completion or the rules produced the diagnosis.
C26_Witness ==
    /\ pc = "done"
    /\ ~CompleteFallback
    /\ context.issues # <<>>
    /\ ~TierAttempted("chain")
    /\ result.confidence_score \in {7, 9}

-----------------------------------------------------------------------------
(* Observations of merging and of suppression *)

\* The step is a process_alert call that took the merge path.
MergeStep == IsCall /\ TheCall.op = "process" /\ TheCall.path = "merged"

\* The fields a merge must leave alone.
SameIdentity(old, new) ==
    /\ new.id = old.id
    /\ new.title = old.title
    /\ new.threshold_value = old.threshold_value
    /\ new.suggested_actions = old.suggested_actions
    /\ new.context = old.context
    /\ new.hostname = old.hostname
    /\ new.metric_type = old.metric_type
    /\ new.resolved = old.resolved
    /\ new.resolved_at = old.resolved_at

(* C27: a process_alert call that merges changes one object, the active alert
   of the incoming pair: its current_value and timestamp become the incoming
   ones, and its level and description too when the levels differ; every
   other field of it, every other object, the active set and the length of
   the history stay as they were, so the incoming object is stored nowhere. *)
C27_MergeTouchesOnlyValueTimeLevelDescription ==
    [][MergeStep =>
        /\ active_alerts' = active_alerts
        /\ Len(alert_history') = Len(alert_history)
        /\ \E ref \in {active_alerts[i].ref : i \in 1..Len(active_alerts)} :
              LET old == alert_history[ref]
                  new == alert_history'[ref]
                  incoming == TheCall.alert
              IN  /\ SamePair(old, incoming)
                  /\ SameIdentity(old, new)
                  /\ new.current_value = incoming.current_value
                  /\ new.timestamp = incoming.timestamp
                  /\ new.level = incoming.level
                  /\ new.description =
                         IF incoming.level # old.level THEN incoming.description
                         ELSE old.description
                  /\ \A k \in 1..Len(alert_history) :
                         k # ref => alert_history'[k] = alert_history[k]
    ]_vars

\* An alert was created and then an alert of another id, level and reading
\* was merged into it.
C27_Witness ==
    /\ CreatedThenProcessed
    /\ LastCall.path = "merged"
    /\ LastCall.alert.id # PrevCall.alert.id
    /\ LastCall.alert.level # PrevCall.alert.level
    /\ LastCall.alert.current_value # PrevCall.alert.current_value

(* C28: a merge whose incoming level differs from the level of the matched
   active alert, in either direction, makes exactly one notifier call, for the
   matched alert at its new level; and process_alert(A) creating a critical
   alert, directly followed by process_alert(B) of level warning for the same
   pair, leaves one active alert of the pair, at level warning, after two
   notifier calls in all. *)
C28_AnyLevelChangeNotifiesOnce ==
    /\ [][MergeStep =>
            \A i \in ActiveOfPair(TheCall.alert.hostname, TheCall.alert.metric_type) :
                ActiveObjects[i].level # TheCall.alert.level =>
                    /\ Len(TheCall.sent) = 1
                    /\ TheCall.sent[1].id = ActiveObjects[i].id
                    /\ TheCall.sent[1].level = TheCall.alert.level]_vars
    /\ []( ( /\ CreatedThenProcessed
             /\ PrevCall.alert.level = "critical"
             /\ LastCall.alert.level = "warning" )
           => LET act == ActiveOfPair(PrevCall.alert.hostname, PrevCall.alert.metric_type)
              IN  /\ Cardinality(act) = 1
                  /\ \A i \in act : ActiveObjects[i].level = "warning"
                  /\ Len(PrevCall.sent) + Len(LastCall.sent) = 2 )

\* A critical alert was created and a warning alert merged into it.
C28_Witness ==
    /\ CreatedThenProcessed
    /\ PrevCall.alert.level = "critical"
    /\ LastCall.alert.level = "warning"
    /\ LastCall.path = "merged"
    /\ Len(LastCall.sent) = 1

(* C29: in every reachable state, whatever the resolved flag of the alerts
   handed to process_alert, every alert of the active set (every alert
   get_active_alerts returns) has resolved = false. *)
C29_ActiveAlertsAreUnresolved ==
    \A i \in 1..Len(active_alerts) : ~ActiveObjects[i].resolved

\* The last two calls are suppress_alerts calls for the same pair.
SuppressedTwice ==
    /\ Len(calls) >= 2
    /\ PrevCall.op = "suppress"
    /\ LastCall.op = "suppress"
    /\ LastCall.arg = PrevCall.arg

(* C30: every suppress_alerts call leaves the rule of its pair expiring at the
   time of the call plus its duration and leaves the other rules alone; so
   after two calls for the same pair the expiry is the one of the later call,
   also when that is earlier than the expiry the first call had set. *)
C30_LaterSuppressionOverwrites ==
    /\ [][(IsCall /\ TheCall.op = "suppress") =>
            /\ TheCall.arg \in DOMAIN suppression_rules'
            /\ suppression_rules'[TheCall.arg] = TheCall.at + TheCall.minutes
            /\ \A k \in DOMAIN suppression_rules :
                   k # TheCall.arg =>
                       k \in DOMAIN suppression_rules'
                       /\ suppression_rules'[k] = suppression_rules[k]]_vars
    /\ [](SuppressedTwice =>
              suppression_rules[LastCall.arg] = LastCall.at + LastCall.minutes)

\* The later of two suppressions of a pair ends before the first would have.
C30_Witness ==
    /\ SuppressedTwice
    /\ LastCall.at + LastCall.minutes < PrevCall.at + PrevCall.minutes
    /\ suppression_rules[LastCall.arg] = LastCall.at + LastCall.minutes

-----------------------------------------------------------------------------
(* Observations of the manager's frame conditions *)

\* The step is a call of the named operation.
CallOf(op) == IsCall /\ TheCall.op = op

(* C31: a resolve_alert call whose id is not in the active set (never created,
   or resolved already) completes and leaves the active set, the history with
   every resolved_at in it, and the suppression rules as they were. *)
C31_ResolveOfAbsentIdChangesNothing ==
    [][(CallOf("resolve") /\ TheCall.arg \notin DictKeys(active_alerts)) =>
            /\ TheCall.path = "absent"
            /\ active_alerts' = active_alerts
            /\ alert_history' = alert_history
            /\ suppression_rules' = suppression_rules]_vars

\* An alert was resolved and, later, resolve_alert was called again with its id.
C31_Witness ==
    /\ Len(calls) = 3
    /\ calls[1].op = "process" /\ calls[1].path = "created"
    /\ calls[2].op = "resolve" /\ calls[2].path = "resolved" /\ calls[2].arg = calls[1].arg
    /\ calls[3].op = "resolve" /\ calls[3].path = "absent" /\ calls[3].arg = calls[1].arg
    /\ calls[3].at > calls[2].at
    /\ alert_history[1].resolved_at = calls[2].at

\* The calls of process_alert whose send_alert raised: the last call of a cycle
\* that ended in the except clause while alerting.
RaisedSends ==
    {Len(HandedUpTo(c)) : c \in {d \in 1..Len(cycles) :
                                    /\ cycles[d].outcome = "error"
                                    /\ cycles[d].handed # <<>>}}

(* C32: every alert of the active set was handed to the notifier in at least
   one send_alert call that returned without raising. *)
C32_ActiveAlertsWereNotified ==
    \A i \in 1..Len(active_alerts) :
        \E k \in (1..Len(calls)) \ RaisedSends :
            \E j \in 1..Len(calls[k].sent) : calls[k].sent[j].id = ActiveObjects[i].id

(* C33: with process_alert calls running as concurrent coroutines that
   interleave at their await of the notifier, the active set holds at most one
   alert for each (hostname, metric_type), and a call never creates an alert
   for a pair while the alert another call in flight created for that pair is
   active. *)
C33_ConcurrentCallsKeepOnePerPair ==
    /\ [](\A h \in Hosts, m \in MetricType : Cardinality(ActiveOfPair(h, m)) <= 1)
    /\ [][\A t \in Tasks :
            (/\ tasks[t].pc = "idle"
             /\ tasks'[t].pc = "await_send"
             /\ tasks'[t].path = "created")
            => \A u \in InFlight :
                   (/\ tasks[u].path = "created"
                    /\ SamePair(tasks[u].alert, tasks'[t].alert))
                   => tasks[u].ref \notin {active_alerts[i].ref : i \in 1..Len(active_alerts)}]_vars

\* Two calls for one pair stand at their await at the same time: the first
\* created the alert, the second merged into it at another level.
C33_Witness ==
    /\ InFlight = Tasks
    /\ tasks["t1"].path = "created"
    /\ tasks["t2"].path = "merged"
    /\ tasks["t2"].ref = tasks["t1"].ref
    /\ Len(active_alerts) = 1

\* The alert of the history log that was created last for the pair of the given
\* alert, as an index (0: none).
LatestOfPair(alert) ==
    LET same == {i \in 1..Len(alert_history) : SamePair(alert_history[i], alert)}
    IN  IF same = {} THEN 0 ELSE CHOOSE i \in same : \A j \in same : j <= i

(* C34: once the alert of a pair is resolved (the alert created last for the
   pair is resolved: no unsuppressed process_alert for the pair has run
   since), the next process_alert for that pair that is not suppressed creates: the incoming alert is appended to the
   history, whose earlier entries (the resolved alert among them) stay as they
   are, it becomes an entry of the active set, and it is handed to the
   notifier exactly once, whatever the two levels. *)
C34_ProcessAfterResolveCreates ==
    [][(/\ CallOf("process")
        /\ TheCall.path # "suppressed"
        /\ LatestOfPair(TheCall.alert) # 0
        /\ alert_history[LatestOfPair(TheCall.alert)].resolved)
       => /\ TheCall.path = "created"
          /\ alert_history' = Append(alert_history, TheCall.alert)
          /\ TheCall.alert.id \in DictKeys(active_alerts')
          /\ active_alerts'[DictPos(active_alerts', TheCall.alert.id)].ref = Len(alert_history')
          /\ TheCall.sent = <<TheCall.alert>>]_vars

\* Created at warning, resolved, then detected again on the same pair at
\* critical.
C34_Witness ==
    /\ Len(calls) = 3
    /\ calls[1].op = "process" /\ calls[1].path = "created" /\ calls[1].alert.level = "warning"
    /\ calls[2].op = "resolve" /\ calls[2].path = "resolved"
    /\ calls[3].op = "process" /\ calls[3].path = "created" /\ calls[3].alert.level = "critical"
    /\ SamePair(calls[1].alert, calls[3].alert)
    /\ Len(alert_history) = 2
    /\ alert_history[1].resolved /\ ~alert_history[2].resolved
    /\ Len(active_alerts) = 1
    /\ Len(calls[3].sent) = 1

(* C35: suppress_alerts for (h, m) installs the rule of that key and changes
   nothing else: the active set, the history and the rules of the other keys
   stay as they are and the notifier is not called; a process_alert whose own
   key has no unexpired rule is not suppressed, whatever rules the other keys
   have; and resolve_alert of an active id resolves it, also while the rule
   of its pair is unexpired. *)
C35_SuppressionTouchesOnlyItsKey ==
    /\ [][CallOf("suppress") =>
            /\ active_alerts' = active_alerts
            /\ alert_history' = alert_history
            /\ (DOMAIN suppression_rules') \ {TheCall.arg}
                    = (DOMAIN suppression_rules) \ {TheCall.arg}
            /\ \A x \in (DOMAIN suppression_rules) \ {TheCall.arg} :
                    suppression_rules'[x] = suppression_rules[x]
            /\ suppression_rules'[TheCall.arg] = now + TheCall.minutes
            /\ TheCall.sent = <<>>]_vars
    /\ [][(CallOf("process") /\ ~IsSuppressed(suppression_rules, TheCall.alert, now))
            => TheCall.path \in {"created", "merged"}]_vars
    /\ [][(CallOf("resolve") /\ TheCall.arg \in DictKeys(active_alerts)) =>
            /\ TheCall.path = "resolved"
            /\ TheCall.arg \notin DictKeys(active_alerts')
            /\ Len(active_alerts') = Len(active_alerts) - 1
            /\ alert_history'[active_alerts[DictPos(active_alerts, TheCall.arg)].ref].resolved]_vars

\* An alert is created, its pair is suppressed, and the alert is resolved
\* while the rule is in force.
C35_Witness ==
    /\ Len(calls) = 3
    /\ calls[1].op = "process" /\ calls[1].path = "created"
    /\ calls[2].op = "suppress"
    /\ calls[2].arg = SuppressionKey(calls[1].alert.hostname, calls[1].alert.metric_type)
    /\ calls[3].op = "resolve" /\ calls[3].path = "resolved" /\ calls[3].arg = calls[1].arg
    /\ calls[3].at < suppression_rules[calls[2].arg]
    /\ active_alerts = <<>>
    /\ alert_history[1].resolved

(* C36: the history log is append-only and covers the active set: no step
   shortens it or replaces the object at a position, it grows by one entry,
   the incoming alert, on each process_alert that takes the creation path and
   on no other step, and every entry of the active set is an object of the
   history log. *)
C36_HistoryAppendOnlyAndCoversActive ==
    /\ [][LET creates == CallOf("process") /\ TheCall.path = "created"
          IN  /\ Len(alert_history') >= Len(alert_history)
              /\ \A i \in 1..Len(alert_history) : alert_history'[i].id = alert_history[i].id
              /\ creates => alert_history' = Append(alert_history, TheCall.alert)
              /\ ~creates => Len(alert_history') = Len(alert_history)]_vars
    /\ [](\A i \in 1..Len(active_alerts) :
            /\ active_alerts[i].ref \in 1..Len(alert_history)
            /\ alert_history[active_alerts[i].ref].id = active_alerts[i].id)

\* An alert is created, escalated by a merge, and resolved: one history entry
\* after three calls.
C36_Witness ==
    /\ Len(calls) = 3
    /\ calls[1].op = "process" /\ calls[1].path = "created"
    /\ calls[2].op = "process" /\ calls[2].path = "merged" /\ Len(calls[2].sent) = 1
    /\ calls[3].op = "resolve" /\ calls[3].path = "resolved"
    /\ Len(alert_history) = 1
    /\ active_alerts = <<>>

-----------------------------------------------------------------------------
(* Observations of the rule tier and of the rule templates *)

\* The labels of a severe reading.
SevereLabels == {CpuSevere, MemorySevere, LoadSevere}

(* C37: on every issue list, the empty one included, the rule-based analysis
   returns a diagnosis whose severity is high when a label is of a severe
   reading, else medium when a label is the bottleneck one, else low. *)
C37_RuleBasedSeverityByKeyword ==
    LET severe == \E i \in 1..Len(probe.input) : probe.input[i] \in SevereLabels
        bottleneck == \E i \in 1..Len(probe.input) : probe.input[i] = IoBottleneck
    IN  Applied("_get_rule_based_analysis") =>
            /\ probe.output.severity \in {"gao", "zhong", "di"}
            /\ probe.output.severity = "gao" <=> severe
            /\ probe.output.severity = "zhong" <=> (~severe /\ bottleneck)
            /\ probe.input = <<>> => probe.output.severity = "di"

\* A severe label after the bottleneck label: the severe keyword wins.
C37_Witness ==
    /\ Applied("_get_rule_based_analysis")
    /\ probe.input = <<IoBottleneck, MemorySevere>>
    /\ probe.output.severity = "gao"

\* The snapshot is one on which local detection returns the empty list.
Quiet(data) == ~DetectionRaises(data) /\ DetectIssuesLocally(data) = <<>>

(* C38: on a snapshot with no detected issue analyze returns straight after
   local detection: no tier is attempted, no model is called, the knowledge
   store is not searched, and the result has no issue and no recommendation;
   the rest of the cycle hands no alert to process_alert and leaves the state
   of the AlertManager as it was. *)
C38_QuietSnapshotTouchesNothing ==
    /\ [][(pc = "idle" /\ context'.data \in StreamSnapshots /\ Quiet(context'.data)) =>
            /\ pc' = "done"
            /\ tiers' = <<>>
            /\ model_calls' = <<>>
            /\ context'.knowledge_results = <<>>
            /\ context'.solutions = NoSolutions
            /\ result'.anomalies_detected = <<>>
            /\ result'.recommendations = <<>>]_vars
    /\ [][(pc = "done" /\ Quiet(context.data) /\ Len(cycles') = Len(cycles) + 1) =>
            /\ cycles'[Len(cycles')].handed = <<>>
            /\ calls' = calls
            /\ active_alerts' = active_alerts
            /\ alert_history' = alert_history
            /\ suppression_rules' = suppression_rules]_vars

\* A quiet cycle after a cycle that raised an alert: the alert is still the
\* only one, and the only call of the manager is the one of the first cycle.
C38_Witness ==
    /\ Len(cycles) = 2
    /\ cycles[1].handed # <<>>
    /\ Quiet(cycles[2].data)
    /\ cycles[2].anomalies = <<>>
    /\ cycles[2].recommendations = 0
    /\ cycles[2].handed = <<>>
    /\ cycles[2].outcome = "handled"
    /\ Len(calls) = Len(cycles[1].handed)
    /\ Len(active_alerts) = 1

\* The category of a detector label: what the label reports on.
CategoryOf(label) ==
    IF label \in {CpuSevere, CpuElevated} THEN "CPU"
    ELSE IF label \in {MemorySevere, MemoryElevated} THEN "neicun"
    ELSE IF label \in {LoadSevere, LoadElevated} THEN "fuzai"
    ELSE "I/O pingjing"

\* The elements of a list.
Range(seq) == {seq[i] : i \in 1..Len(seq)}

(* C39: on the rule-template path each detector label selects the template of
   its own category: the immediate actions are those of the categories of the
   labels of the list, the I/O template for the compound bottleneck label. *)
C39_EachLabelSelectsItsOwnTemplate ==
    Applied("_get_fallback_solutions") =>
        Range(probe.output.immediate_actions) =
            {"immediate: " \o CategoryOf(probe.input[i]) : i \in 1..Len(probe.input)}

\* The recommendations are those of the rule templates for the issues, with
\* at most the first two of the given snippets: every entry is a template row
\* of an issue or one of these snippets, and each issue has its row.
BuiltFromTemplates(recommendations, issues, snippets) ==
    /\ Range(recommendations) \subseteq
            {list \o ": " \o TemplateOf(issues[i]) :
                list \in {"immediate", "monitoring", "preventive"}, i \in 1..Len(issues)}
            \cup Range(Take(snippets, 2))
    /\ \A i \in 1..Len(issues) :
            ("immediate: " \o TemplateOf(issues[i])) \in Range(recommendations)

\* analyze has returned a result built from the templates, and not an empty one.
ReturnsTemplates(snippets) ==
    /\ pc' = "done"
    /\ result'.anomalies_detected = context.issues
    /\ BuiltFromTemplates(result'.recommendations, context.issues, snippets)
    /\ context.issues # <<>> => result'.recommendations # <<>>

(* C40, as stated: when the knowledge search raises or returns nothing, or the
   structured solution call fails or times out, the result analyze returns has
   recommendations built from the rule templates, non-empty for a non-empty
   issue list. *)
C40_SynthesisFailuresEndInTemplates ==
    /\ [][(\E kr \in KnowledgeResults : GenerateSolutions(kr, TRUE)) => ReturnsTemplates(<<>>)]_vars
    /\ [][(SolutionRaises \/ SolutionTimeout) => ReturnsTemplates(context.knowledge_results)]_vars
    /\ [][(pc \in {"solutions", "await_solution"} /\ pc' = "done"
           /\ context'.knowledge_results = <<>>)
          => BuiltFromTemplates(result'.recommendations, context.issues, <<>>)]_vars

(* C40, amended: when the knowledge search raises, or the structured solution
   call fails or times out, or the search returns nothing while the structured
   chain is not in use, the result analyze returns has recommendations built
   from the rule templates, non-empty for a non-empty issue list. *)
C40_SynthesisFailuresEndInTemplatesUnlessChainAnswers ==
    /\ [][(\E kr \in KnowledgeResults : GenerateSolutions(kr, TRUE)) => ReturnsTemplates(<<>>)]_vars
    /\ [][(SolutionRaises \/ SolutionTimeout) => ReturnsTemplates(context.knowledge_results)]_vars
    /\ [][(/\ GenerateSolutions(<<>>, FALSE)
           /\ ~(agent.use_langchain /\ context.llm_analysis # NoAnalysis))
          => ReturnsTemplates(<<>>)]_vars

\* The structured solution call was made after a search that returned
\* snippets, and the result carries the template rows and the snippets.
C40_Witness ==
    /\ pc = "done"
    /\ model_calls # <<>>
    /\ model_calls[Len(model_calls)] = "solution_chain"
    /\ context.knowledge_results # <<>>
    /\ result.anomalies_detected # <<>>
    /\ BuiltFromTemplates(result.recommendations, context.issues, context.knowledge_results)
    /\ context.knowledge_results[1] \in Range(result.recommendations)
=============================================================================
